---- MODULE Spec2Model ----
(***************************************************************************)
(* Model of the misinformation-triage backend (MisInfo/backend):           *)
(*   - the persistent store tables events, raw_claims, verified_claims,    *)
(*     system_logs as used by the code;                                     *)
(*   - CoordinatorAgent.start / run_cycle and its four phase functions      *)
(*     (coordinator_agent.py);                                              *)
(*   - InvestigatorAgent.process_task / increment_retry_count /             *)
(*     assess_source_credibility (investigator_agent.py);                   *)
(*   - the HTTP handlers submit_claim and seed_demo_claim (app.py).         *)
(* Scores are in hundredths (0.85 is 85).  One action is one handler or one *)
(* iteration of a phase loop; store calls are synchronous, so the only      *)
(* suspension points inside an iteration are the agent calls, and the       *)
(* iteration touches only its own row.                                      *)
(***************************************************************************)
EXTENDS Integers, Sequences, FiniteSets, Bags, TLC

\* ---------------------------------------------------------------- bounds
MaxClaims == 2        \* rows the raw_claims table may hold
MaxFew == 1           \* the same, for the specifications over a small table
MaxFaults == 1        \* store/agent calls that may raise in one behaviour
MaxCandidates == 2    \* candidates one Scout call returns (the code allows 15)
MaxFailed == 4        \* failed consultations counted for one claim (history counter)
MaxUrls == 2          \* distinct article URLs the news services return
MaxRows == 2          \* auto_cleanup: rows of raw_claims when the script starts
MaxVerdictRows == 2   \* auto_cleanup: rows of verified_claims when the script starts
MaxTexts == 2         \* EnhancedInvestigatorAgent: distinct claim texts
MaxTasks == 3         \* EnhancedInvestigatorAgent: calls of process_task in one behaviour
MaxStored == 2        \* rows the raw_claims table holds when the coordinator starts
MaxSubmitted == 3     \* AgentCoordinator: tasks submitted in one behaviour
MaxConnections == 3   \* connections the /ws endpoint is called for

\* ------------------------------------------------------- program constants
RetryLimit == 3       \* retry_count < 3 filter of the escalation phase
ClaimLimit == 15      \* ScoutAgent: len(discovered_claims) >= 15 ends the loops
FewClaims == 5        \* ScoutAgent: below 5 entries every article is taken
SomeClaims == 10      \* ScoutAgent: below 10 entries every non-reputable article is taken
NewsdataQueries == 6  \* ScoutAgent: len(search_queries)
GuardianQueries == 8  \* ScoutAgent: len(guardian_queries)
Urls == 1..MaxUrls    \* the article URLs
NoScore == -1         \* a NULL score column / a None score
NoDossier == 0        \* a NULL research_dossier_json column
NoEvent == 0          \* active_event_id = None

SuspScores == {15, 90}
CredScores == {50, 90}

\* Research dossiers the Research Agent returns, by index: a knowledge-base
\* summary (or none) and web results; it writes no fact_check_databases and no
\* news_coverage entry, so the coordinator reads their defaults.
\* has_*: lower-cased substring tests on the summary text
\* fc_found / fc_verdict: fact_check_databases.found / .verdict (lower-cased)
\* credible_news: number of news_coverage.sources in {Reuters, AP, BBC, CNN}
Dossiers ==
  << [has_summary |-> FALSE, summary_is_dict |-> FALSE,
      has_contradict |-> FALSE, has_false |-> FALSE, has_not |-> FALSE,
      fc_found |-> FALSE, fc_verdict |-> "", credible_news |-> 0],
     [has_summary |-> TRUE, summary_is_dict |-> FALSE,
      has_contradict |-> FALSE, has_false |-> FALSE, has_not |-> TRUE,
      fc_found |-> FALSE, fc_verdict |-> "", credible_news |-> 0],
     [has_summary |-> TRUE, summary_is_dict |-> TRUE,
      has_contradict |-> FALSE, has_false |-> FALSE, has_not |-> FALSE,
      fc_found |-> TRUE, fc_verdict |-> "pants on fire", credible_news |-> 0],
     [has_summary |-> TRUE, summary_is_dict |-> TRUE,
      has_contradict |-> FALSE, has_false |-> FALSE, has_not |-> FALSE,
      fc_found |-> TRUE, fc_verdict |-> "pants on fire", credible_news |-> 3],
     [has_summary |-> TRUE, summary_is_dict |-> TRUE,
      has_contradict |-> FALSE, has_false |-> FALSE, has_not |-> FALSE,
      fc_found |-> FALSE, fc_verdict |-> "", credible_news |-> 1] >>

\* the dossiers ResearchAgent.gather_evidence returns: wikipedia_summary and
\* web_snippets only
BasicDossiers == { d \in 1..Len(Dossiers) : ~Dossiers[d].summary_is_dict }

\* the dossiers EnhancedResearchAgent.comprehensive_research returns: six
\* entries, each a dict
EnhancedDossiers == { d \in 1..Len(Dossiers) : Dossiers[d].summary_is_dict }

EmptyDossier == Dossiers[1]

\* json.loads(research_dossier_json); a NULL column or unparsable text gives {}
ParseDossier(d) == IF d = NoDossier THEN EmptyDossier ELSE Dossiers[d]

Statuses ==
  { "pending_initial_analysis", "pending_manual_review", "pending_fusion_decision",
    "archived", "pending_final_decision", "escalated_to_investigator",
    "resolved_by_fusion", "error", "resolved_by_investigator", "investigation_failed" }

Phases == << "initial", "fusion", "final", "escalation" >>

VARIABLES
  has_store,        \* supabase_client is not None (app.py global, passed to the coordinator)
  use_gemini,       \* InvestigatorAgent.use_gemini
  inv_has_client,   \* InvestigatorAgent.supabase_client is not None
  has_manager,      \* CoordinatorAgent.websocket_manager is not None
  capacity,         \* rows the raw_claims table may hold in this behaviour
  recording,        \* the failed consultations are counted in this behaviour
  enhanced_research, \* the research agent passed to the coordinator is the enhanced one
  events,           \* table events: sequence of status strings, event_id = index
  raw_claims,       \* table raw_claims: sequence of rows, claim_id = index
  verified_claims,  \* table verified_claims: bag of rows
  system_logs,      \* table system_logs: number of rows
  pc,               \* position of the coordinator task
  active_event_id,  \* local of start()
  discovery_cycle,  \* local of start()
  phase,            \* index in Phases of the phase function run_cycle is in
  todo,             \* claims of the phase's result list not yet iterated
  faults,           \* calls that raised so far
  iter_no,          \* history: 0 before the first iteration, then 1, 2, 1, 2, ...
  ran_discovery,    \* history: discovery phase entered in this iteration
  phases_run,       \* history: phase functions entered in this cycle, in order
  skipped,          \* history: rows of the last result list the loop never reached
  watched,          \* history: the claim whose consultation failed first (0: none yet)
  failed_attempts,  \* history: consultations of the watched claim that raised
  broadcasts,       \* history: broadcasts sent in this iteration
  profiled,         \* history: profiler score and re-assessment of the last claim scored
  response,         \* the object the last recorded HTTP request returned
  store_calls,      \* history: store calls that request made
  newsdata_api_key,     \* ScoutAgent: NEWSDATA_API_KEY is set
  guardian_api_key,     \* ScoutAgent: GUARDIAN_API_KEY is set
  existing_claim_urls,  \* ScoutAgent: the URLs the caller passes
  discovered_claims,    \* ScoutAgent: bag of the source_url of the entries collected
  scout_pc,             \* ScoutAgent: position in process_task_with_urls
  query,                \* ScoutAgent: index of the query of the current loop
  saw_duplicate,        \* history: an article with a known URL was met
  article,              \* history: the flags of the last article that passed both checks
  request,              \* history: the outcome of the last request of this call
  stored_raw,           \* auto_cleanup: rows of table raw_claims (claim_id, claim_text)
  stored_verified,      \* auto_cleanup: rows of table verified_claims (verification_id, raw_claim_id)
  cleanup_pc,           \* auto_cleanup: position in the script
  duplicate_ids,        \* auto_cleanup: the list duplicate_ids
  verified_left,        \* auto_cleanup: rows the verified_claims loop has not reached
  raw_left,             \* auto_cleanup: ids the raw_claims loop has not reached
  deletes,              \* history: the delete calls issued, in order
  enh_use_gemini,       \* EnhancedInvestigatorAgent.use_gemini
  stats,                \* EnhancedInvestigatorAgent.stats
  cache,                \* cache_manager: the result kept for each claim text
  task_queue,           \* AgentCoordinator.task_queue: the heap list of (priority, task)
  getter_waiting,       \* AgentCoordinator: run_coordinator is suspended in get()
  submitted,            \* history: the priority of each task submitted, in order
  serviced,             \* history: the tasks run_coordinator took from the queue, in order
  queue_outcome,        \* history: how the last put or get ended
  active_connections,   \* ConnectionManager: the tracked connections
  ws_pc,                \* websocket_endpoint: position of the handler of each connection
  tasks_done,           \* history: the calls of process_task, in order
  case_file,            \* InvestigatorAgent called alone: the scores of the case file passed
  reply,                \* InvestigatorAgent called alone: the model's reply to the credibility prompt
  returned              \* InvestigatorAgent called alone: what the call returned or raised

cfgVars == << has_store, use_gemini, inv_has_client, has_manager, capacity, recording,
             enhanced_research >>
storeVars == << events, raw_claims, verified_claims, system_logs >>
loopVars == << pc, active_event_id, discovery_cycle, phase, todo >>
histVars == << iter_no, ran_discovery, phases_run,
               skipped, watched, failed_attempts, broadcasts >>
apiVars == << response, store_calls >>
profileVars == << profiled >>
scoutVars == << newsdata_api_key, guardian_api_key, existing_claim_urls,
                discovered_claims, scout_pc, query, saw_duplicate,
                article, request >>
\* the service (coordinator, store, HTTP handlers) and the components run
\* beside it
serviceVars == << cfgVars, storeVars, loopVars, faults, histVars, apiVars, profileVars >>
cleanupVars == << stored_raw, stored_verified, cleanup_pc, duplicate_ids,
                  verified_left, raw_left, deletes >>
enhancedVars == << enh_use_gemini, stats, cache, tasks_done >>
investigatorVars == << case_file, reply, returned >>
queueVars == << task_queue, getter_waiting, submitted, serviced, queue_outcome >>
wsVars == << active_connections, ws_pc >>
frameworkVars == << queueVars, wsVars >>
sideVars == << scoutVars, cleanupVars, enhancedVars, investigatorVars, frameworkVars >>
vars == << serviceVars, sideVars >>

ClaimIds == 1..Len(raw_claims)

CanFail == faults < MaxFaults

\* a store or agent call raises
Fault == CanFail /\ faults' = faults + 1

\* a row as inserted by discovery or by an HTTP handler
NewClaim(ev, text_ok, meta_ok) ==
  [ event_id |-> ev, text_ok |-> text_ok, meta_ok |-> meta_ok,
    status |-> "pending_initial_analysis", susp |-> NoScore, cred |-> NoScore,
    dossier |-> NoDossier, retry_count |-> 0, analysis_error |-> "" ]

\* table("raw_claims").update(data).eq("claim_id", c)
UpdateClaim(c, data) ==
  [raw_claims EXCEPT ![c] = [f \in DOMAIN raw_claims[c] |->
      IF f \in DOMAIN data THEN data[f] ELSE raw_claims[c][f]]]

\* table("raw_claims").select("*").eq("status", s): ids of the matching rows
SelectByStatus(s) == { c \in ClaimIds : raw_claims[c].status = s }

\* the state when startup_event has built the agents and start() is entered
\* ScoutAgent before process_task_with_urls is called: any key configuration,
\* any set of known URLs (process_task passes the empty set)
NoArticle == [checked |-> FALSE, is_suspicious |-> FALSE, is_reputable |-> FALSE,
              is_unreliable_domain |-> FALSE]

ScoutLocals ==
  /\ discovered_claims = EmptyBag
  /\ scout_pc = "idle"
  /\ query = 0
  /\ saw_duplicate = FALSE
  /\ article = NoArticle
  /\ request = "none"

ScoutInit ==
  /\ newsdata_api_key \in BOOLEAN
  /\ guardian_api_key \in BOOLEAN
  /\ existing_claim_urls \in SUBSET Urls
  /\ ScoutLocals

\* the Scout not configured: no key, no known URL
ScoutOff ==
  /\ newsdata_api_key = FALSE
  /\ guardian_api_key = FALSE
  /\ existing_claim_urls = {}
  /\ ScoutLocals

\* auto_cleanup. The claim texts by what the script tests of them: a text equal
\* to a seed string, a text around a seed string, any other text.
ClaimTexts == {"seed", "around_seed", "other"}

\* any(test_claim in claim_text for test_claim in test_claims)
ContainsTestClaim(claim_text) == claim_text \in {"seed", "around_seed"}

\* the tables a run of the script can find: claim ids 1..n with any texts,
\* verification ids 1..m, each row referencing one of the claims
RawTables ==
  { { [claim_id |-> i, claim_text |-> f[i]] : i \in DOMAIN f } :
      f \in UNION { [1..n -> ClaimTexts] : n \in 0..MaxRows } }

VerifiedTables(raw) ==
  LET ids == { r.claim_id : r \in raw } IN
  UNION { { { [verification_id |-> j, raw_claim_id |-> g[j]] : j \in 1..m } :
              g \in [1..m -> ids] } : m \in 0..MaxVerdictRows }

CleanupLocals ==
  /\ cleanup_pc = "start"
  /\ duplicate_ids = << >>
  /\ verified_left = << >>
  /\ raw_left = << >>
  /\ deletes = << >>

CleanupInit ==
  /\ stored_raw \in RawTables
  /\ stored_verified \in VerifiedTables(stored_raw)
  /\ CleanupLocals

\* the script not run, over empty tables
CleanupOff ==
  /\ stored_raw = {}
  /\ stored_verified = {}
  /\ CleanupLocals

\* EnhancedInvestigatorAgent.__init__ and an empty cache. A result is kept by
\* its kind: no result, the empty JSON object, a verdict record.
Texts == 1..MaxTexts

EnhancedLocals ==
  /\ stats = [cache_hits |-> 0, fact_db_hits |-> 0, gemini_calls |-> 0, total_analyses |-> 0]
  /\ cache = [t \in Texts |-> "none"]
  /\ tasks_done = << >>

EnhancedInit ==
  /\ enh_use_gemini \in BOOLEAN
  /\ EnhancedLocals

\* the agent not built
EnhancedOff ==
  /\ enh_use_gemini = FALSE
  /\ EnhancedLocals

\* InvestigatorAgent called alone. A score of the case file is a number, the
\* JSON null, or absent (the key is not in the case file).
Absent == -2

CaseScores == {10, 30, 50, 70, 80, 90}

CaseFiles == [susp : CaseScores \cup {NoScore, Absent}, cred : CaseScores \cup {NoScore, Absent}]

\* what generate_content_async gives for the credibility prompt: the call
\* raises, the text is not JSON, the JSON has no score, the score is a string
\* (or null, a list, an object), the score is a JSON boolean (score: its value
\* as a Python number, True = 1, in hundredths), or the score is a number (in
\* hundredths, any size)
ReplyScores == {-10, 0, 20, 50, 90, 100, 150}

ModelReplies ==
  [kind : {"call_raises", "not_json", "no_score", "not_a_number"}, score : {NoScore}]
    \cup [kind : {"boolean"}, score : {0, 100}]
    \cup [kind : {"score"}, score : ReplyScores]

NoResult == [op |-> "none", outcome |-> "none", verdict |-> "none", score |-> NoScore]

InvestigatorCalled ==
  /\ case_file \in CaseFiles
  /\ reply \in ModelReplies
  /\ returned = NoResult

\* the connections the /ws endpoint is called for
Connections == 1..MaxConnections

\* AgentCoordinator.__init__: an empty queue, nothing submitted
QueueInit ==
  /\ task_queue = << >>
  /\ getter_waiting = FALSE
  /\ submitted = << >>
  /\ serviced = << >>
  /\ queue_outcome = "none"

\* ConnectionManager(): no connection tracked, no handler called
ManagerInit ==
  /\ active_connections = {}
  /\ ws_pc = [c \in Connections |-> "none"]

\* the generic coordinator and the push channel not used
FrameworkOff == QueueInit /\ ManagerInit

\* the agent not called: the first case file, the first reply
InvestigatorOff ==
  /\ case_file = [susp |-> Absent, cred |-> Absent]
  /\ reply = [kind |-> "call_raises", score |-> NoScore]
  /\ returned = NoResult

\* no HTTP request recorded yet
NoResponse == [handler |-> "none", kind |-> "none"]

\* no claim scored yet
NoProfile == [profiler |-> NoScore, assessed |-> NoScore]

\* the service after construction, over a store whose events table is one of
\* stored
ServiceOver(cap, rec, enh, stored) ==
  /\ recording = rec
  /\ enhanced_research = enh
  /\ capacity = cap
  /\ has_store \in BOOLEAN
  /\ use_gemini \in BOOLEAN
  /\ inv_has_client \in BOOLEAN
  /\ has_manager \in BOOLEAN
  /\ events \in stored
  /\ raw_claims = << >>
  /\ verified_claims = EmptyBag
  /\ system_logs = 0
  /\ pc = "start"
  /\ active_event_id = NoEvent
  /\ discovery_cycle = 0
  /\ phase = 1
  /\ todo = {}
  /\ faults = 0
  /\ iter_no = 0
  /\ ran_discovery = FALSE
  /\ phases_run = << >>
  /\ skipped = {}
  /\ watched = 0
  /\ failed_attempts = 0
  /\ broadcasts = 0
  /\ profiled = NoProfile
  /\ response = NoResponse
  /\ store_calls = 0

\* the service after construction: no event yet, or the active one
ServiceInit(cap, rec, enh) == ServiceOver(cap, rec, enh, { << >>, << "active" >> })

\* the service not started: no client, nothing in the store
ServiceOff ==
  /\ ServiceInit(MaxFew, FALSE, FALSE)
  /\ ~has_store /\ ~use_gemini /\ ~inv_has_client /\ ~has_manager
  /\ events = << >>

\* the service alone: the Scout is not called (discovery draws the number of
\* its candidates), no key, no known URL
InitWith(cap, rec) ==
  /\ ServiceInit(cap, rec, FALSE)
  /\ ScoutOff
  /\ CleanupOff
  /\ EnhancedOff
  /\ InvestigatorOff
  /\ FrameworkOff

Init == InitWith(MaxClaims, TRUE)

\* the coordinator as startup_event builds it (connection manager attached),
\* over a store that accepts fewer rows, without the count of failures
FewInit == InitWith(MaxFew, FALSE) /\ has_manager

\* ------------------------------------------------------------ loop start
\* get_or_create_active_event: the id of the first active event, else the id
\* of a newly inserted 'Live Monitoring' event, None without a client or on
\* any store error.
\* variant: the select finds nothing
ActiveEventsNone == {}

\* table("events").select("event_id").eq("status", "active")
ActiveEvents == { e \in 1..Len(events) : events[e] = "active" }

FirstActive == CHOOSE e \in ActiveEvents : \A f \in ActiveEvents : e <= f

GetOrCreateActiveEvent ==
  /\ pc = "start"
  /\ pc' = "sleep"
  /\ \/ /\ ~has_store
        /\ active_event_id' = NoEvent
        /\ UNCHANGED << events, faults >>
     \/ /\ has_store
        /\ ActiveEvents # {}
        /\ active_event_id' = FirstActive
        /\ UNCHANGED << events, faults >>
     \/ /\ has_store
        /\ ActiveEvents = {}
        /\ events' = Append(events, "active")
        /\ active_event_id' = Len(events) + 1
        /\ UNCHANGED faults
     \/ /\ has_store          \* the select or the insert raises
        /\ CanFail
        /\ faults' = faults + 1
        /\ active_event_id' = NoEvent
        /\ UNCHANGED events
  /\ UNCHANGED << sideVars, profileVars, cfgVars, apiVars, raw_claims, verified_claims, system_logs,
                  discovery_cycle, phase, todo, histVars >>

\* ------------------------------------------------------- loop iteration
\* variant: a counter of period three
NextDiscoveryCycleOfThree(d) == (d + 1) % 3

\* top of the while loop: sleep(15), the modulo counter, the discovery test
NextDiscoveryCycle(d) == (d + 1) % 2

BeginIteration ==
  /\ pc = "sleep"
  /\ discovery_cycle' = NextDiscoveryCycle(discovery_cycle)
  /\ iter_no' = IF iter_no = 1 THEN 2 ELSE 1
  /\ LET go == discovery_cycle' = 0 /\ has_store /\ active_event_id # NoEvent
     IN /\ ran_discovery' = go
        /\ pc' = IF go THEN "discovery" ELSE "select"
  /\ phase' = 1
  /\ todo' = {}
  /\ phases_run' = << >>
  /\ skipped' = {}
  /\ broadcasts' = 0
  /\ UNCHANGED << sideVars, profileVars, cfgVars, apiVars, storeVars, active_event_id, faults, watched, failed_attempts >>

\* variant: every candidate is kept
ClaimsToProcessAll(n) == n

\* the discovery phase of start(): load the known URLs (errors tolerated),
\* call the Scout, keep the first candidate, insert it and log.
\* n is the number of candidates the Scout returned.
ClaimsToProcess(n) == IF n > 1 THEN 1 ELSE n

\* rows appended by inserting k discovered claims under the active event
Inserted(k) == [i \in 1..k |-> NewClaim(active_event_id, TRUE, TRUE)]

Discovery ==
  /\ pc = "discovery"
  /\ pc' = "select"
  /\ \E n \in 0..MaxCandidates :
     LET k == ClaimsToProcess(n) IN
     \/ /\ k = 0                      \* nothing to insert, no summary
        /\ UNCHANGED << raw_claims, system_logs, faults >>
     \/ /\ k > 0                      \* every insert and its log row, then the summary
        /\ Len(raw_claims) < capacity
        /\ raw_claims' = raw_claims \o Inserted(k)
        /\ system_logs' = system_logs + k + 1
        /\ UNCHANGED faults
     \/ /\ k = 1                      \* the insert raises: not a duplicate, no summary
        /\ Fault
        /\ UNCHANGED << raw_claims, system_logs >>
     \/ /\ k = 1                      \* the insert raises 'duplicate': summary row only
        /\ Fault
        /\ system_logs' = system_logs + 1
        /\ UNCHANGED raw_claims
     \/ /\ k = 1                      \* inserted, its log insert raises, summary written
        /\ Len(raw_claims) < capacity
        /\ Fault
        /\ raw_claims' = raw_claims \o Inserted(k)
        /\ system_logs' = system_logs + 1
     \/ /\ k = 1                      \* inserted and logged, the summary insert raises,
        /\ Len(raw_claims) < capacity        \* the handler writes its error row
        /\ Fault
        /\ raw_claims' = raw_claims \o Inserted(k)
        /\ system_logs' = system_logs + 2
     \/ /\ n = 0                      \* the Scout call raises, the handler writes its error row
        /\ Fault
        /\ system_logs' = system_logs + 1
        /\ UNCHANGED raw_claims
  /\ UNCHANGED << sideVars, profileVars, cfgVars, apiVars, events, verified_claims, active_event_id, discovery_cycle,
                  phase, todo, iter_no, ran_discovery, phases_run, skipped, watched,
                  failed_attempts, broadcasts >>

\* ----------------------------------------------------------- run_cycle
\* the status each phase function queries
PhaseStatus(name) ==
  CASE name = "initial"    -> "pending_initial_analysis"
    [] name = "fusion"     -> "pending_fusion_decision"
    [] name = "final"      -> "pending_final_decision"
    [] name = "escalation" -> "escalated_to_investigator"

\* variant: the final-decision phase also loops over the resolved claims
PhaseFilterResolved(name, cs) ==
  IF name = "escalation"
  THEN { c \in cs : raw_claims[c].retry_count < RetryLimit }
  ELSE IF name = "final"
  THEN cs \cup SelectByStatus("resolved_by_fusion")
  ELSE cs

\* the rows of a query result the phase loops over: the escalation phase
\* keeps the rows with retry_count < 3, the other phases keep all
PhaseFilter(name, cs) ==
  IF name = "escalation"
  THEN { c \in cs : raw_claims[c].retry_count < RetryLimit }
  ELSE cs

\* the phase function returns (normally or through its except clause):
\* run_cycle calls the next one, or returns [] to start() after the last
Return(ph) ==
  /\ todo' = {}
  /\ IF ph < Len(Phases)
     THEN pc' = "select" /\ phase' = ph + 1
     ELSE pc' = "after" /\ phase' = ph

\* entry of a phase function: the client test and the status query
PhaseSelect ==
  /\ pc = "select"
  /\ phases_run' = Append(phases_run, Phases[phase])
  /\ \/ /\ ~has_store
        /\ Return(phase)
        /\ skipped' = {}
        /\ UNCHANGED faults
     \/ /\ has_store                 \* the query raises
        /\ CanFail
        /\ faults' = faults + 1
        /\ Return(phase)
        /\ skipped' = {}
     \/ /\ has_store
        /\ LET rows == PhaseFilter(Phases[phase], SelectByStatus(PhaseStatus(Phases[phase])))
           IN IF rows = {}
              THEN Return(phase)
              ELSE todo' = rows /\ pc' = "loop" /\ UNCHANGED phase
        /\ skipped' = {}
        /\ UNCHANGED faults
  /\ UNCHANGED << sideVars, profileVars, cfgVars, apiVars, storeVars, active_event_id, discovery_cycle,
                  iter_no, ran_discovery, watched, failed_attempts, broadcasts >>

\* variant: the loop ends after its first row
ContinueOnce(c) ==
  /\ skipped' = {}
  /\ Return(phase)

\* one loop iteration ends: with the next row or the end of the loop
\* (continue), or by an exception that the try/except around the whole loop
\* catches
Continue(c) ==
  /\ skipped' = {}
  /\ IF todo \ {c} = {}
     THEN Return(phase)
     ELSE todo' = todo \ {c} /\ UNCHANGED << pc, phase >>

\* variant: no handler around the loop, the exception ends the task
AbortTask(c) ==
  /\ pc' = "halted"
  /\ todo' = {}
  /\ UNCHANGED phase
  /\ skipped' = todo \ {c}

Abort(c) ==
  /\ Return(phase)
  /\ skipped' = todo \ {c}

\* InvestigatorAgent.assess_source_credibility: 0.5 without the model, on any
\* error and for an invalid score, else the model's score
AssessSourceCredibility == IF use_gemini THEN CredScores \cup {50} ELSE {50}

\* variant: the failed analysis is stored as a neutral score
ManualReviewNeutral ==
  [status |-> "pending_manual_review", analysis_error |-> "analysis_failed", susp |-> 50]

\* the update written when the analyst reports a failed analysis (null score)
ManualReview == [status |-> "pending_manual_review", analysis_error |-> "analysis_failed"]

\* the scores the Analyst returns; the runs with the enhanced research agent
\* also draw a middle one, which no score rule of the verdict ladder decides
AnalystScores == IF enhanced_research THEN SuspScores \cup {50} ELSE SuspScores

\* the scores the Source Profiler returns; the runs with the enhanced
\* research agent also draw a low one
ProfilerScores == IF enhanced_research THEN CredScores \cup {20} ELSE CredScores

\* variant: the re-assessment is never triggered
IsNeutralNever(score) == FALSE

\* 'if source_credibility_score == 0.5'
IsNeutral(score) == score = 50

\* history: the profiler's score and the result of the re-assessment
\* (NoScore: not invoked) of the last claim both agents were run for
Profiled(profiler, assessed) ==
  IF recording
  THEN profiled' = [profiler |-> profiler, assessed |-> assessed]
  ELSE UNCHANGED profiled

\* variant: the status moves on, the scores are left for a later update
ScoredLater(text_suspicion_score, source_credibility_score) ==
  [status |-> "pending_fusion_decision"]

\* the update written at the end of an analysed claim's iteration: both
\* scores and the new status in one row update
Scored(text_suspicion_score, source_credibility_score) ==
  [susp |-> text_suspicion_score, cred |-> source_credibility_score,
   status |-> "pending_fusion_decision"]

\* one iteration of the loop of process_pending_initial_analysis
InitialStep(c) ==
  /\ pc = "loop"
  /\ Phases[phase] = "initial"
  /\ c \in todo
  /\ LET r == raw_claims[c] IN
     \/ /\ ~r.text_ok               \* AnalystAgent.process_task raises ValueError
        /\ Abort(c)
        /\ UNCHANGED << raw_claims, faults, profiled >>
     \/ /\ r.text_ok                \* the analyst returns a null score
        /\ UNCHANGED profiled
        /\ \/ /\ raw_claims' = UpdateClaim(c, ManualReview)
              /\ Continue(c)
              /\ UNCHANGED faults
           \/ /\ Fault              \* the update raises
              /\ Abort(c)
              /\ UNCHANGED raw_claims
     \/ /\ r.text_ok                \* the analyst returns a score,
        /\ ~r.meta_ok               \* SourceProfilerAgent.process_task raises ValueError
        /\ Abort(c)
        /\ UNCHANGED << raw_claims, faults, profiled >>
     \/ /\ r.text_ok
        /\ r.meta_ok
        /\ \E s \in AnalystScores, p \in ProfilerScores :
           \E g \in (IF IsNeutral(p) THEN AssessSourceCredibility ELSE {p}) :
              /\ Profiled(p, IF IsNeutral(p) THEN g ELSE NoScore)
              /\ \/ /\ raw_claims' = UpdateClaim(c, Scored(s, g))
                    /\ Continue(c)
                    /\ UNCHANGED faults
                 \/ /\ Fault        \* the update raises
                    /\ Abort(c)
                    /\ UNCHANGED raw_claims
  /\ UNCHANGED << sideVars, cfgVars, apiVars, events, verified_claims, system_logs, active_event_id,
                  discovery_cycle, iter_no, ran_discovery, phases_run,
                  watched, failed_attempts, broadcasts >>

\* variant: the credibility threshold of the archive rule is 0.9
ArchiveRuleStrict(su, cr) == su < 20 /\ cr > 90

\* the low-risk test of process_fusion_decision
ArchiveRule(su, cr) == su < 20 /\ cr > 80

\* the dossiers the coordinator's research agent can return
ResearchDossiers == IF enhanced_research THEN EnhancedDossiers ELSE BasicDossiers

\* one iteration of the loop of process_fusion_decision
FusionStep(c) ==
  /\ pc = "loop"
  /\ Phases[phase] = "fusion"
  /\ c \in todo
  /\ LET r == raw_claims[c] IN
     \/ /\ (r.susp = NoScore \/ r.cred = NoScore)     \* missing score: skipped
        /\ Continue(c)
        /\ UNCHANGED << raw_claims, system_logs, faults >>
     \/ /\ r.susp # NoScore /\ r.cred # NoScore
        /\ ArchiveRule(r.susp, r.cred)
        /\ \/ /\ raw_claims' = UpdateClaim(c, [status |-> "archived"])
              /\ system_logs' = system_logs + 1
              /\ Continue(c)
              /\ UNCHANGED faults
           \/ /\ Fault                                 \* the update raises
              /\ Abort(c)
              /\ UNCHANGED << raw_claims, system_logs >>
           \/ /\ Fault                                 \* the log insert raises
              /\ raw_claims' = UpdateClaim(c, [status |-> "archived"])
              /\ Abort(c)
              /\ UNCHANGED system_logs
     \/ /\ r.susp # NoScore /\ r.cred # NoScore
        /\ ~ArchiveRule(r.susp, r.cred)
        /\ ~r.text_ok                                  \* ResearchAgent.process_task raises
        /\ Abort(c)
        /\ UNCHANGED << raw_claims, system_logs, faults >>
     \/ /\ r.susp # NoScore /\ r.cred # NoScore
        /\ ~ArchiveRule(r.susp, r.cred)
        /\ r.text_ok
        /\ \E d \in ResearchDossiers :                 \* the research agent's dossier
           \/ /\ raw_claims' = UpdateClaim(c, [dossier |-> d,
                                               status |-> "pending_final_decision"])
              /\ system_logs' = system_logs + 1
              /\ Continue(c)
              /\ UNCHANGED faults
           \/ /\ Fault                                 \* the update raises
              /\ Abort(c)
              /\ UNCHANGED << raw_claims, system_logs >>
           \/ /\ Fault                                 \* the log insert raises
              /\ raw_claims' = UpdateClaim(c, [dossier |-> d,
                                               status |-> "pending_final_decision"])
              /\ Abort(c)
              /\ UNCHANGED system_logs
  /\ UNCHANGED << sideVars, profileVars, cfgVars, apiVars, events, verified_claims, active_event_id, discovery_cycle,
                  iter_no, ran_discovery, phases_run,
                  watched, failed_attempts, broadcasts >>

\* substring tests on the lower-cased fact-check rating
FcHasFalse(v) == v \in {"false", "mostly false"}
FcHasPants(v) == v = "pants on fire"
FcHasTrue(v) == v \in {"true", "mostly true", "half true"}

\* the escalation test of process_final_decision
ShouldEscalate(su, cr, d) ==
  \/ (su > 85 /\ cr < 30)
  \/ (su > 70 /\ (\/ (d.has_summary /\ (d.has_contradict \/ d.has_false \/ d.has_not))
                  \/ d.credible_news = 0))

\* the escalation test raises AttributeError: its second half calls
\* wikipedia_summary.lower(), and the enhanced dossier holds a dict there
EscalationTestRaises(su, cr, d) ==
  /\ ~(su > 85 /\ cr < 30)
  /\ su > 70
  /\ d.has_summary
  /\ d.summary_is_dict

\* the verdict ladder raises the same error when it comes to its test of
\* the summary
LadderRaises(su, cr, d) ==
  /\ ~d.fc_found
  /\ d.credible_news < 3
  /\ ~(su > 80) /\ ~(su > 60 /\ cr < 60) /\ ~(su > 70)
  /\ ~(su < 20 /\ cr > 60) /\ ~(su < 40 /\ cr > 50) /\ ~(su < 30)
  /\ d.has_summary
  /\ d.summary_is_dict

\* the verdict ladder of process_final_decision
FusionVerdict(su, cr, d) ==
  IF d.fc_found
  THEN IF FcHasFalse(d.fc_verdict) \/ FcHasPants(d.fc_verdict) THEN "False"
       ELSE IF FcHasTrue(d.fc_verdict) THEN "True"
       ELSE "Misleading"
  ELSE IF d.credible_news >= 3 THEN "True"
  ELSE IF su > 80 THEN "False"
  ELSE IF su > 60 /\ cr < 60 THEN "False"
  ELSE IF su > 70 THEN "False"
  ELSE IF su < 20 /\ cr > 60 THEN "True"
  ELSE IF su < 40 /\ cr > 50 THEN "True"
  ELSE IF su < 30 THEN "True"
  ELSE IF d.has_summary /\ (d.has_false \/ d.has_not) THEN "False"
  ELSE "Misleading"

\* variant: the text is written, the status is left alone
MissingScoresNoted == [analysis_error |-> "missing_scores"]

\* the update written for a claim that reaches the final decision without a
\* score
MissingScores == [status |-> "error", analysis_error |-> "missing_scores"]

\* variant: the verdict row names no claim
VerifiedRowUnlinked(c, verdict) == [raw_claim_id |-> 0, verification_status |-> verdict]

\* the row inserted into verified_claims (result_data, without its texts)
VerifiedRow(c, verdict) == [raw_claim_id |-> c, verification_status |-> verdict]

\* one iteration of the loop of process_final_decision
FinalStep(c) ==
  /\ pc = "loop"
  /\ Phases[phase] = "final"
  /\ c \in todo
  /\ LET r == raw_claims[c]
         d == ParseDossier(r.dossier)
     IN
     \/ /\ (r.susp = NoScore \/ r.cred = NoScore)     \* missing score: status error
        /\ \/ /\ raw_claims' = UpdateClaim(c, MissingScores)
              /\ UNCHANGED faults
           \/ /\ Fault                                 \* the update raises, caught in place
              /\ UNCHANGED raw_claims
        /\ Continue(c)
        /\ UNCHANGED << verified_claims, system_logs >>
     \/ /\ r.susp # NoScore /\ r.cred # NoScore
        /\ \/ EscalationTestRaises(r.susp, r.cred, d)
           \/ (~ShouldEscalate(r.susp, r.cred, d) /\ LadderRaises(r.susp, r.cred, d))
        /\ Abort(c)
        /\ UNCHANGED << raw_claims, verified_claims, system_logs, faults >>
     \/ /\ r.susp # NoScore /\ r.cred # NoScore
        /\ ~EscalationTestRaises(r.susp, r.cred, d)
        /\ ShouldEscalate(r.susp, r.cred, d)
        /\ \/ /\ raw_claims' = UpdateClaim(c, [status |-> "escalated_to_investigator"])
              /\ system_logs' = system_logs + 1
              /\ Continue(c)
              /\ UNCHANGED faults
           \/ /\ Fault                                 \* the update raises
              /\ Abort(c)
              /\ UNCHANGED << raw_claims, system_logs >>
           \/ /\ Fault                                 \* the log insert raises
              /\ raw_claims' = UpdateClaim(c, [status |-> "escalated_to_investigator"])
              /\ Abort(c)
              /\ UNCHANGED system_logs
        /\ UNCHANGED verified_claims
     \/ /\ r.susp # NoScore /\ r.cred # NoScore
        /\ ~EscalationTestRaises(r.susp, r.cred, d)
        /\ ~ShouldEscalate(r.susp, r.cred, d)
        /\ ~LadderRaises(r.susp, r.cred, d)
        /\ LET row == VerifiedRow(c, FusionVerdict(r.susp, r.cred, d)) IN
           \/ /\ verified_claims' = verified_claims (+) SetToBag({row})
              /\ raw_claims' = UpdateClaim(c, [status |-> "resolved_by_fusion"])
              /\ system_logs' = system_logs + 1
              /\ Continue(c)
              /\ UNCHANGED faults
           \/ /\ Fault                                 \* the verdict insert raises
              /\ Abort(c)
              /\ UNCHANGED << verified_claims, raw_claims, system_logs >>
           \/ /\ Fault                                 \* the status update raises
              /\ verified_claims' = verified_claims (+) SetToBag({row})
              /\ Abort(c)
              /\ UNCHANGED << raw_claims, system_logs >>
           \/ /\ Fault                                 \* the log insert raises
              /\ verified_claims' = verified_claims (+) SetToBag({row})
              /\ raw_claims' = UpdateClaim(c, [status |-> "resolved_by_fusion"])
              /\ Abort(c)
              /\ UNCHANGED system_logs
  /\ UNCHANGED << sideVars, profileVars, cfgVars, apiVars, events, active_event_id, discovery_cycle,
                  iter_no, ran_discovery, phases_run,
                  watched, failed_attempts, broadcasts >>

\* ------------------------------------------------------ InvestigatorAgent
Verdicts == {"True", "False", "Misleading"}

\* verdicts the generative model returns
GeminiVerdicts == {"False", "Misleading"}

\* analyze_with_mock
MockVerdict(su, cr) ==
  IF su > 80 /\ cr < 30 THEN "False"
  ELSE IF su < 30 /\ cr > 70 THEN "True"
  ELSE "Misleading"

\* variant: the handler sends the claim back to the final decision
RetryStatusRequeue == "pending_final_decision"

\* the status increment_retry_count writes together with the new count
RetryStatus == "investigation_failed"

\* variant: the count read is written back
NewRetryCountSame(current_retry_count) == current_retry_count

\* new_retry_count of increment_retry_count
NewRetryCount(current_retry_count) == current_retry_count + 1

\* increment_retry_count(c): read the count, write count + 1 and the status,
\* append a log row; every store error is swallowed
IncrementRetryCount(c) ==
  \/ /\ raw_claims' = UpdateClaim(c, [retry_count |-> NewRetryCount(raw_claims[c].retry_count),
                                      status |-> RetryStatus])
     /\ system_logs' = system_logs + 1
     /\ UNCHANGED faults
  \/ /\ Fault                                          \* the select or the update raises
     /\ UNCHANGED << raw_claims, system_logs >>
  \/ /\ Fault                                          \* the log insert raises
     /\ raw_claims' = UpdateClaim(c, [retry_count |-> NewRetryCount(raw_claims[c].retry_count),
                                      status |-> RetryStatus])
     /\ UNCHANGED system_logs

\* history: InvestigatorAgent.process_task raised for claim c
Raised(c) ==
  IF ~recording
  THEN UNCHANGED << watched, failed_attempts >>
  ELSE IF watched = 0
  THEN watched' = c /\ failed_attempts' = 1
  ELSE IF watched = c
  THEN failed_attempts < MaxFailed /\ failed_attempts' = failed_attempts + 1 /\ UNCHANGED watched
  ELSE UNCHANGED << watched, failed_attempts >>

\* process_task raises after a failed model call: the retry count is written
\* only when the agent holds a persistence client
AnalysisFailed(c) ==
  /\ Raised(c)
  /\ IF inv_has_client
     THEN IncrementRetryCount(c)
     ELSE UNCHANGED << raw_claims, system_logs, faults >>

\* one iteration of the loop of process_investigator_escalation; every
\* exception of the consultation is caught inside the iteration
EscalationStep(c) ==
  /\ pc = "loop"
  /\ Phases[phase] = "escalation"
  /\ c \in todo
  /\ Continue(c)
  /\ LET r == raw_claims[c] IN
     \/ /\ use_gemini                                  \* the model call fails
        /\ AnalysisFailed(c)
        /\ UNCHANGED verified_claims
     \/ /\ use_gemini                                  \* result without verdict/reasoning
        /\ UNCHANGED << raw_claims, verified_claims, system_logs, faults, watched, failed_attempts >>
     \/ /\ ~use_gemini                                 \* analyze_with_mock on a null score
        /\ (r.susp = NoScore \/ r.cred = NoScore)
        /\ Raised(c)
        /\ UNCHANGED << raw_claims, verified_claims, system_logs, faults >>
     \/ /\ \E v \in (IF use_gemini THEN GeminiVerdicts
                     ELSE IF r.susp = NoScore \/ r.cred = NoScore THEN {}
                     ELSE {MockVerdict(r.susp, r.cred)}) :
           \/ /\ verified_claims' = verified_claims (+) SetToBag({VerifiedRow(c, v)})
              /\ raw_claims' = UpdateClaim(c, [status |-> "resolved_by_investigator"])
              /\ UNCHANGED faults
           \/ /\ Fault                                 \* the verdict insert raises
              /\ UNCHANGED << verified_claims, raw_claims >>
           \/ /\ Fault                                 \* the status update raises
              /\ verified_claims' = verified_claims (+) SetToBag({VerifiedRow(c, v)})
              /\ UNCHANGED raw_claims
        /\ UNCHANGED << system_logs, watched, failed_attempts >>
  /\ UNCHANGED << sideVars, profileVars, cfgVars, apiVars, events, active_event_id, discovery_cycle,
                  iter_no, ran_discovery, phases_run, broadcasts >>

\* ------------------------------------------------- end of the iteration
\* what run_cycle returns to start()
RunCycleResult == << >>

\* the broadcast test of start() and the except clause of the loop body
AfterCycle ==
  /\ pc = "after"
  /\ pc' = "sleep"
  /\ IF Len(RunCycleResult) > 0 /\ has_manager
     THEN \/ /\ broadcasts' = broadcasts + 1
             /\ UNCHANGED << system_logs, faults >>
          \/ /\ Fault                                  \* broadcast raises: error row, sleep(5)
             /\ system_logs' = IF has_store THEN system_logs + 1 ELSE system_logs
             /\ UNCHANGED broadcasts
          \/ /\ faults + 1 < MaxFaults                 \* ... and the error row insert raises
             /\ faults' = faults + 2
             /\ UNCHANGED << system_logs, broadcasts >>
     ELSE UNCHANGED << system_logs, faults, broadcasts >>
  /\ UNCHANGED << sideVars, profileVars, cfgVars, apiVars, events, raw_claims, verified_claims, active_event_id,
                  discovery_cycle, phase, todo, iter_no, ran_discovery,
                  phases_run, skipped, watched, failed_attempts >>

\* --------------------------------------------------------- HTTP handlers
\* variant: no handler tests the client
ClientMissingNever == FALSE

\* the test every handler starts with: supabase_client is None
ClientMissing == ~has_store

\* the kinds of object a handler returns, the store calls one request can make
Kinds == {"error", "success", "rows"}
Calls == 0..3

\* the returned object and the number of store calls are recorded for the
\* requests that name their handler; the coordinator's runs name none
Respond(handler, kind, calls) ==
  IF handler = NoResponse.handler
  THEN UNCHANGED apiVars
  ELSE /\ response' = [handler |-> handler, kind |-> kind]
       /\ store_calls' = calls

\* the body shared by submit_claim and seed_demo_claim: the client test, the
\* event select, the row insert, the log insert
InsertSubmitted(handler, text_ok, meta_ok) ==
  /\ \/ /\ ClientMissing
        /\ Respond(handler, "error", 0)
        /\ UNCHANGED << raw_claims, system_logs, faults >>
     \/ /\ ~ClientMissing
        /\ Len(events) = 0                             \* 'No events found in database'
        /\ Respond(handler, "error", 1)
        /\ UNCHANGED << raw_claims, system_logs, faults >>
     \/ /\ ~ClientMissing
        /\ Len(events) > 0
        /\ Len(raw_claims) < capacity
        /\ LET row == NewClaim(1, text_ok, meta_ok) IN
           \/ /\ Respond(handler, "success", 3)
              /\ raw_claims' = Append(raw_claims, row)
              /\ system_logs' = system_logs + 1
              /\ UNCHANGED faults
           \/ /\ Respond(handler, "error", 3)          \* the log insert raises
              /\ Fault
              /\ raw_claims' = Append(raw_claims, row)
              /\ UNCHANGED system_logs
           \/ /\ \E calls \in {1, 2} :                 \* the event select or the row insert raises
                    Respond(handler, "error", calls)
              /\ Fault
              /\ UNCHANGED << raw_claims, system_logs >>
  /\ UNCHANGED << sideVars, profileVars, cfgVars, events, verified_claims, loopVars, iter_no, ran_discovery,
                  phases_run, skipped, watched, failed_attempts, broadcasts >>

\* POST /api/submit-claim: the metadata is built by the handler
\* with json.dumps (app.py 325), so it is always well formed
SubmitClaim ==
  \E text_ok \in BOOLEAN, meta_ok \in {TRUE} :
     /\ meta_ok
     /\ InsertSubmitted(NoResponse.handler, text_ok, meta_ok)

\* POST /seed-demo-claim: the caller supplies the metadata text
SeedDemoClaim ==
  \E text_ok \in BOOLEAN, meta_ok \in BOOLEAN :
     /\ text_ok \/ meta_ok
     /\ InsertSubmitted(NoResponse.handler, text_ok, meta_ok)

\* the same two handlers, the returned object recorded
SubmitClaimRequest ==
  \E text_ok \in BOOLEAN, meta_ok \in {TRUE} :
     /\ meta_ok
     /\ InsertSubmitted("submit_claim", text_ok, meta_ok)

SeedDemoClaimRequest ==
  \E text_ok \in BOOLEAN, meta_ok \in BOOLEAN :
     /\ text_ok \/ meta_ok
     /\ InsertSubmitted("seed_demo_claim", text_ok, meta_ok)

\* a read-only handler: the client test, one select, then the rows (found)
\* or the error object of the except clause when the select raises
ReadReturns(found, kind, calls) ==
  /\ \/ /\ ClientMissing
        /\ kind = "error" /\ calls = 0
        /\ UNCHANGED faults
     \/ /\ ~ClientMissing
        /\ kind = found /\ calls = 1
        /\ UNCHANGED faults
     \/ /\ ~ClientMissing
        /\ kind = "error" /\ calls = 1
        /\ Fault
  /\ UNCHANGED << sideVars, profileVars, cfgVars, storeVars, loopVars, histVars >>

\* GET /updates
GetUpdates ==
  \E kind \in Kinds, calls \in Calls :
     ReadReturns("rows", kind, calls) /\ Respond("get_updates", kind, calls)

\* GET /agent-status
GetAgentStatus ==
  \E kind \in Kinds, calls \in Calls :
     ReadReturns("rows", kind, calls) /\ Respond("get_agent_status", kind, calls)

\* GET /test-db
TestDatabase ==
  \E kind \in Kinds, calls \in Calls :
     ReadReturns("success", kind, calls) /\ Respond("test_database", kind, calls)

\* ------------------------------------------------------- specification
Coordinator ==
  \/ GetOrCreateActiveEvent
  \/ BeginIteration
  \/ Discovery
  \/ PhaseSelect
  \/ \E c \in ClaimIds : InitialStep(c)
  \/ \E c \in ClaimIds : FusionStep(c)
  \/ \E c \in ClaimIds : FinalStep(c)
  \/ \E c \in ClaimIds : EscalationStep(c)
  \/ AfterCycle

Next ==
  \/ GetOrCreateActiveEvent
  \/ BeginIteration
  \/ Discovery
  \/ PhaseSelect
  \/ \E c \in ClaimIds : InitialStep(c)
  \/ \E c \in ClaimIds : FusionStep(c)
  \/ \E c \in ClaimIds : FinalStep(c)
  \/ \E c \in ClaimIds : EscalationStep(c)
  \/ AfterCycle
  \/ SubmitClaim
  \/ SeedDemoClaim

Spec == Init /\ [][Next]_vars

FewSpec == FewInit /\ [][Next]_vars

\* events tables the coordinator can find at start: empty, the active event,
\* an event that is not active, both kinds
StoredEvents == { << >>, << "active" >>, << "closed" >>, << "active", "closed" >> }

\* the coordinator started over any of these tables
EventsInit ==
  /\ ServiceOver(MaxFew, FALSE, FALSE, StoredEvents)
  /\ has_manager /\ ~use_gemini /\ ~inv_has_client
  /\ ScoutOff
  /\ CleanupOff
  /\ EnhancedOff
  /\ InvestigatorOff
  /\ FrameworkOff

EventsSpec == EventsInit /\ [][Next]_vars

\* the coordinator built with the enhanced research agent, whose dossiers
\* carry fact_check_databases and news_coverage
EnhancedResearchInit ==
  /\ ServiceInit(MaxFew, FALSE, TRUE)
  /\ has_store /\ has_manager
  /\ ScoutOff
  /\ CleanupOff
  /\ EnhancedOff
  /\ InvestigatorOff
  /\ FrameworkOff

EnhancedResearchSpec == EnhancedResearchInit /\ [][Next]_vars

\* the Investigator built with the generative model and with a persistence
\* client, the failed consultations counted
ClientInit ==
  /\ InitWith(MaxFew, TRUE)
  /\ has_store /\ has_manager /\ use_gemini /\ inv_has_client

ClientSpec == ClientInit /\ [][Next]_vars

\* run_cycle over a store that holds rows when the service starts: the
\* tables outlive the process and are open to other writers, so a row can be
\* in any status with any of its score columns NULL
StoredRows ==
  { [ NewClaim(1, TRUE, TRUE) EXCEPT !.status = st, !.susp = su, !.cred = cr ] :
      st \in { "pending_initial_analysis", "pending_fusion_decision",
               "pending_final_decision", "escalated_to_investigator" },
      su \in {NoScore, 90},
      cr \in {NoScore, 90} }

\* the state when start() has found the active event and slept, and
\* run_cycle is entered for the first time
StoredInit ==
  /\ recording = FALSE
  /\ enhanced_research = FALSE
  /\ capacity = MaxStored
  /\ has_store = TRUE
  /\ use_gemini = FALSE             \* GEMINI_API_KEY is not set
  /\ inv_has_client = FALSE         \* as startup_event builds the Investigator
  /\ has_manager = TRUE
  /\ events = << "active" >>
  /\ raw_claims \in UNION { [1..n -> StoredRows] : n \in 1..MaxStored }
  /\ verified_claims = EmptyBag
  /\ system_logs = 0
  /\ pc = "select"
  /\ active_event_id = 1
  /\ discovery_cycle = 1
  /\ phase = 1
  /\ todo = {}
  /\ faults = 0
  /\ iter_no = 1
  /\ ran_discovery = FALSE
  /\ phases_run = << >>
  /\ skipped = {}
  /\ watched = 0
  /\ failed_attempts = 0
  /\ broadcasts = 0
  /\ profiled = NoProfile
  /\ response = NoResponse
  /\ store_calls = 0
  /\ ScoutOff
  /\ CleanupOff
  /\ EnhancedOff
  /\ InvestigatorOff
  /\ FrameworkOff

RunCycle ==
  \/ PhaseSelect
  \/ \E c \in ClaimIds : InitialStep(c)
  \/ \E c \in ClaimIds : FusionStep(c)
  \/ \E c \in ClaimIds : FinalStep(c)
  \/ \E c \in ClaimIds : EscalationStep(c)
  \/ AfterCycle

StoredSpec == StoredInit /\ [][RunCycle]_vars

\* the HTTP handlers alone, every returned object recorded
ApiNext ==
  \/ GetUpdates
  \/ GetAgentStatus
  \/ TestDatabase
  \/ SubmitClaimRequest
  \/ SeedDemoClaimRequest

ApiSpec == FewInit /\ [][ApiNext]_vars

\* the service exactly as startup_event wires it: the Investigator is built
\* without a persistence client
WiredInit == FewInit /\ ~inv_has_client

\* startup_event starts the coordinator task once; the event loop keeps
\* scheduling the task, so every await of start() returns
FairSpec == WiredInit /\ [][Next]_vars /\ WF_vars(Coordinator)

\* the same service over a store that takes a second row, with its client and
\* the active event in place
PairInit ==
  /\ InitWith(MaxClaims, FALSE)
  /\ has_store /\ has_manager /\ ~use_gemini /\ ~inv_has_client
  /\ events = << "active" >>

FairPairSpec == PairInit /\ [][Next]_vars /\ WF_vars(Coordinator)

\* the behaviours of that service in which no store call and no model call
\* raises (an agent still raises on a row whose input it rejects)
NoFailureNext == Next /\ faults' = faults

NoFailureSpec == PairInit /\ [][NoFailureNext]_vars

\* --------------------------------------------- InvestigatorAgent alone
\* case_file.get(key, 0.5): the default stands in for an absent key only, a
\* JSON null is returned as None
GetScore(score) == IF score = Absent THEN 50 ELSE score

\* confidence of analyze_with_mock
MockConfidence(su, cr) ==
  IF su > 80 /\ cr < 30 THEN 90
  ELSE IF su < 30 /\ cr > 70 THEN 80
  ELSE 60

Raises(op) == [op |-> op, outcome |-> "raised", verdict |-> "none", score |-> NoScore]

\* analyze_with_mock(case_file): formatting a None score with ':.4f' in the
\* log line raises TypeError before the rules are applied
AnalyzeWithMock(cf) ==
  LET su == GetScore(cf.susp)
      cr == GetScore(cf.cred)
  IN IF su = NoScore \/ cr = NoScore
     THEN Raises("process_task")
     ELSE [op |-> "process_task", outcome |-> "returned",
           verdict |-> MockVerdict(su, cr), score |-> MockConfidence(su, cr)]

\* analyze_with_gemini as process_task sees it: every failure is re-raised,
\* any parsed JSON is returned as the investigation result
AnalyzeWithGemini(r) ==
  IF r.kind \in {"call_raises", "not_json"}
  THEN Raises("process_task")
  ELSE [op |-> "process_task", outcome |-> "returned", verdict |-> "model", score |-> NoScore]

\* process_task on a case file without claim_id: no store call on any path
InvestigatorProcessTask ==
  /\ returned = NoResult
  /\ returned' = IF use_gemini THEN AnalyzeWithGemini(reply) ELSE AnalyzeWithMock(case_file)
  /\ UNCHANGED << frameworkVars, serviceVars, scoutVars, cleanupVars, enhancedVars, case_file, reply >>

\* isinstance(score, (int, float)): bool is a subclass of int
IsNumber(r) == r.kind \in {"score", "boolean"}

\* assess_source_credibility by what the model replies: 0.5 without the
\* model, when the call raises, when the text is not JSON, when the score is
\* missing, fails the isinstance test or is outside [0, 1]; else float(score)
AssessedScore(available, r) ==
  IF ~available THEN 50
  ELSE IF ~IsNumber(r) THEN 50
  ELSE IF 0 <= r.score /\ r.score <= 100 THEN r.score
  ELSE 50

AssessSourceCredibilityCall ==
  /\ returned = NoResult
  /\ returned' = [op |-> "assess_source_credibility", outcome |-> "returned",
                  verdict |-> "none", score |-> AssessedScore(use_gemini, reply)]
  /\ UNCHANGED << frameworkVars, serviceVars, scoutVars, cleanupVars, enhancedVars, case_file, reply >>

InvestigatorNext ==
  \/ InvestigatorProcessTask
  \/ AssessSourceCredibilityCall

\* the agent built with or without the model, no store, nothing else running
InvestigatorAlone ==
  /\ ServiceInit(MaxFew, FALSE, FALSE)
  /\ ~has_store /\ ~inv_has_client /\ ~has_manager
  /\ events = << >>
  /\ ScoutOff
  /\ CleanupOff
  /\ EnhancedOff
  /\ FrameworkOff
  /\ InvestigatorCalled

InvestigatorSpec == InvestigatorAlone /\ [][InvestigatorNext]_vars

\* ------------------------------------------------------ AgentCoordinator
\* base_agent.py. A task is its position in the order of submission; the queue
\* holds the tuples (-task.priority.value, task) in the list heapq keeps.
TaskPriority == 1..4

Entry(priority, task) == [priority |-> priority, task |-> task]

\* (p1, t1) < (p2, t2): the tuples are compared item by item; AgentTask is a
\* dataclass without order=True, so t1 < t2 raises TypeError for two tasks
\* that are not equal
Compare(a, b) ==
  IF a.priority # b.priority
  THEN (IF a.priority < b.priority THEN "lt" ELSE "ge")
  ELSE IF a.task = b.task THEN "ge" ELSE "raise"

Swap(heap, i, j) == [heap EXCEPT ![i] = heap[j], ![j] = heap[i]]

\* heapq _siftdown(heap, startpos, pos), positions counted from 0: the entry
\* at pos moves up while it is smaller than its parent
RECURSIVE Siftdown(_, _, _)
Siftdown(heap, startpos, pos) ==
  IF pos <= startpos
  THEN [heap |-> heap, raised |-> FALSE]
  ELSE LET parentpos == (pos - 1) \div 2
           cmp == Compare(heap[pos + 1], heap[parentpos + 1])
       IN  IF cmp = "raise" THEN [heap |-> heap, raised |-> TRUE]
           ELSE IF cmp = "ge" THEN [heap |-> heap, raised |-> FALSE]
           ELSE Siftdown(Swap(heap, pos + 1, parentpos + 1), startpos, parentpos)

\* heapq _siftup(heap, pos): the smaller child moves up until a leaf is
\* reached, then the entry is sifted down from there
RECURSIVE BubbleUp(_, _)
BubbleUp(heap, pos) ==
  IF pos >= Len(heap) \div 2
  THEN Siftdown(heap, 0, pos)
  ELSE LET left == 2 * pos + 1
           cmp == IF left + 1 < Len(heap)
                  THEN Compare(heap[left + 1], heap[left + 2])
                  ELSE "lt"
           childpos == IF cmp = "lt" THEN left ELSE left + 1
       IN  IF cmp = "raise" THEN [heap |-> heap, raised |-> TRUE]
           ELSE BubbleUp(Swap(heap, pos + 1, childpos + 1), childpos)

\* heapq.heappush(heap, item): append, then sift down
Heappush(heap, item) == Siftdown(Append(heap, item), 0, Len(heap))

\* heapq.heappop(heap) of a heap that is not empty: the last entry replaces
\* the first, which is returned when the sift has not raised
Heappop(heap) ==
  IF Len(heap) = 1
  THEN [heap |-> << >>, raised |-> FALSE, item |-> heap[1]]
  ELSE LET rest == [SubSeq(heap, 1, Len(heap) - 1) EXCEPT ![1] = heap[Len(heap)]]
           sifted == BubbleUp(rest, 0)
       IN  [heap |-> sifted.heap, raised |-> sifted.raised, item |-> heap[1]]

\* task_queue.put((priority, task))
PutEntry(priority, task) == Heappush(task_queue, Entry(priority, task))

\* submit_task(task): the priority is negated and the tuple is put; a put
\* that raises has appended the tuple and wakes no getter
SubmitTask ==
  /\ Len(submitted) < MaxSubmitted
  /\ \E priority \in TaskPriority :
       LET put == PutEntry(-priority, Len(submitted) + 1)
       IN  /\ submitted' = Append(submitted, priority)
           /\ task_queue' = put.heap
           /\ queue_outcome' = IF put.raised THEN "put_raised" ELSE "put"
           /\ getter_waiting' = (getter_waiting /\ put.raised)
  /\ UNCHANGED << serviced, wsVars, serviceVars, scoutVars, cleanupVars, enhancedVars, investigatorVars >>

\* one pass of the loop of run_coordinator: get() suspends on an empty queue
\* until a put wakes it; otherwise the first entry is popped and its task
\* handed to its agent, or the pop raises and the pass ends in the outer
\* except clause
RunCoordinator ==
  /\ ~getter_waiting
  /\ IF task_queue = << >>
     THEN /\ getter_waiting' = TRUE
          /\ UNCHANGED << task_queue, serviced, queue_outcome >>
     ELSE LET got == Heappop(task_queue)
          IN  /\ task_queue' = got.heap
              /\ serviced' = IF got.raised THEN serviced ELSE Append(serviced, got.item.task)
              /\ queue_outcome' = IF got.raised THEN "get_raised" ELSE "get"
              /\ UNCHANGED getter_waiting
  /\ UNCHANGED << submitted, wsVars, serviceVars, scoutVars, cleanupVars, enhancedVars, investigatorVars >>

QueueNext ==
  \/ SubmitTask
  \/ RunCoordinator

\* the generic coordinator alone
QueueAlone == ServiceOff /\ ScoutOff /\ CleanupOff /\ EnhancedOff /\ InvestigatorOff /\ FrameworkOff

QueueSpec == QueueAlone /\ [][QueueNext]_vars

\* ---------------------------------------------------- websocket_endpoint
\* app.py /ws over the ConnectionManager (backend/websocket_manager)
\* manager.connect(websocket): the connection is accepted and registered
Connect(websocket) == active_connections \cup {websocket}

\* manager.disconnect(websocket): removes the connection, absent or not
Disconnect(websocket) == active_connections \ {websocket}

\* the handler is called: the connection is accepted and tracked, or the
\* accept raises and the handler ends before its try block
WsAccept(websocket) ==
  /\ ws_pc[websocket] = "none"
  /\ \/ /\ active_connections' = Connect(websocket)
        /\ ws_pc' = [ws_pc EXCEPT ![websocket] = "send"]
     \/ /\ ws_pc' = [ws_pc EXCEPT ![websocket] = "refused"]
        /\ UNCHANGED active_connections
  /\ UNCHANGED << queueVars, serviceVars, scoutVars, cleanupVars, enhancedVars, investigatorVars >>

\* variant: no finally clause, the handler ends and the manager keeps the
\* connection
WsClosedTracked(websocket) ==
  /\ UNCHANGED active_connections
  /\ ws_pc' = [ws_pc EXCEPT ![websocket] = "ended"]

\* the exception (or the cancellation) leaves the loop: the finally clause
\* calls manager.disconnect and the handler ends
WsClosed(websocket) ==
  /\ active_connections' = Disconnect(websocket)
  /\ ws_pc' = [ws_pc EXCEPT ![websocket] = "ended"]

\* websocket.send_text("ping"): sent, or it raises
WsSend(websocket) ==
  /\ ws_pc[websocket] = "send"
  /\ \/ /\ ws_pc' = [ws_pc EXCEPT ![websocket] = "sleep"]
        /\ UNCHANGED active_connections
     \/ WsClosed(websocket)
  /\ UNCHANGED << queueVars, serviceVars, scoutVars, cleanupVars, enhancedVars, investigatorVars >>

\* asyncio.sleep(25): over, or the task is cancelled in it
WsSleep(websocket) ==
  /\ ws_pc[websocket] = "sleep"
  /\ \/ /\ ws_pc' = [ws_pc EXCEPT ![websocket] = "send"]
        /\ UNCHANGED active_connections
     \/ WsClosed(websocket)
  /\ UNCHANGED << queueVars, serviceVars, scoutVars, cleanupVars, enhancedVars, investigatorVars >>

WsNext ==
  \/ \E websocket \in Connections : WsAccept(websocket)
  \/ \E websocket \in Connections : WsSend(websocket)
  \/ \E websocket \in Connections : WsSleep(websocket)

\* the endpoint alone
WsAlone == ServiceOff /\ ScoutOff /\ CleanupOff /\ EnhancedOff /\ InvestigatorOff /\ FrameworkOff

WsSpec == WsAlone /\ [][WsNext]_vars

\* ------------------------------------------------------------ ScoutAgent
\* process_task_with_urls. An article is drawn by what the loop body reads of
\* it: text_ok (the claim text has 20 characters or more), its URL, and the
\* three flags is_suspicious, is_reputable, is_unreliable_domain.
Collected == BagCardinality(discovered_claims)

\* variant: the URL test finds nothing
IsDuplicateNever(url) == FALSE

\* 'if url in existing_claim_urls'
IsDuplicate(url) == url \in existing_claim_urls

\* variant: no content floor
DiscoverWithoutFloor(is_suspicious, is_reputable, is_unreliable_domain) ==
  \/ is_suspicious
  \/ is_unreliable_domain
  \/ (Collected < SomeClaims /\ ~is_reputable)

\* the discovery condition of the loop body
Discover(is_suspicious, is_reputable, is_unreliable_domain) ==
  \/ is_suspicious
  \/ is_unreliable_domain
  \/ (Collected < SomeClaims /\ ~is_reputable)
  \/ Collected < FewClaims

\* the function is entered: no key (or the client cannot be built) returns
\* at once, else the first loop that has a key starts
ProcessTaskWithUrls ==
  /\ scout_pc = "idle"
  /\ \/ /\ newsdata_api_key
        /\ scout_pc' = "newsdata" /\ query' = 1
     \/ /\ ~newsdata_api_key /\ guardian_api_key
        /\ scout_pc' = "guardian" /\ query' = 1
     \/ /\ scout_pc' = "returned" /\ UNCHANGED query    \* no key, or the outer except clause
  /\ UNCHANGED << frameworkVars, investigatorVars, enhancedVars, cleanupVars, serviceVars, newsdata_api_key, guardian_api_key, existing_claim_urls,
                  discovered_claims, saw_duplicate, article, request >>

\* the end of one Newsdata.io query: the limit test after the try block, the
\* next query, or the Guardian block, or the return
EndNewsdataQuery(n) ==
  IF n < ClaimLimit /\ query < NewsdataQueries
  THEN scout_pc' = "newsdata" /\ query' = query + 1
  ELSE IF guardian_api_key
  THEN scout_pc' = "guardian" /\ query' = 1
  ELSE scout_pc' = "returned" /\ UNCHANGED query

\* the end of one Guardian query
EndGuardianQuery(n) ==
  IF n < ClaimLimit /\ query < GuardianQueries
  THEN scout_pc' = "guardian" /\ query' = query + 1
  ELSE scout_pc' = "returned" /\ UNCHANGED query

\* variant: a failed request reaches the outer except clause
NewsdataRequestFailedEndsCall == scout_pc' = "returned" /\ UNCHANGED query

\* a Newsdata.io request that times out, fails in transport, raises an HTTP
\* error or answers another status than 200: the warning is logged and the
\* limit test after the try block follows
NewsdataRequestFailed == EndNewsdataQuery(Collected)

\* the same for a Guardian request
GuardianRequestFailed == EndGuardianQuery(Collected)

\* one request: status 200 (the articles follow), or a failure
NewsdataRequest ==
  /\ scout_pc = "newsdata"
  /\ \/ scout_pc' = "newsdata_articles" /\ request' = "answered" /\ UNCHANGED query
     \/ NewsdataRequestFailed /\ request' = "failed"
  /\ UNCHANGED << frameworkVars, investigatorVars, enhancedVars, cleanupVars, serviceVars, newsdata_api_key, guardian_api_key, existing_claim_urls,
                  discovered_claims, saw_duplicate, article >>

GuardianRequest ==
  /\ scout_pc = "guardian"
  /\ \/ scout_pc' = "guardian_articles" /\ request' = "answered" /\ UNCHANGED query
     \/ GuardianRequestFailed /\ request' = "failed"
  /\ UNCHANGED << frameworkVars, investigatorVars, enhancedVars, cleanupVars, serviceVars, newsdata_api_key, guardian_api_key, existing_claim_urls,
                  discovered_claims, saw_duplicate, article >>

\* history: the flags computed for an article that passed both checks
Checked(is_suspicious, is_reputable, is_unreliable_domain) ==
  [checked |-> TRUE, is_suspicious |-> is_suspicious, is_reputable |-> is_reputable,
   is_unreliable_domain |-> is_unreliable_domain]

\* one pass of the article loop body: the length check, the duplicate check,
\* then the flags (reputable holds the values is_reputable can take) and the
\* discovery condition
Article(text_ok, url, reputable) ==
  \/ /\ ~text_ok
     /\ article' = NoArticle
     /\ UNCHANGED << discovered_claims, saw_duplicate >>
  \/ /\ text_ok
     /\ IsDuplicate(url)
     /\ saw_duplicate' = TRUE
     /\ article' = NoArticle
     /\ UNCHANGED discovered_claims
  \/ /\ text_ok
     /\ ~IsDuplicate(url)
     /\ \E is_suspicious, is_unreliable_domain \in BOOLEAN, is_reputable \in reputable :
           /\ article' = Checked(is_suspicious, is_reputable, is_unreliable_domain)
           /\ IF Discover(is_suspicious, is_reputable, is_unreliable_domain)
              THEN discovered_claims' = discovered_claims (+) SetToBag({url})
              ELSE UNCHANGED discovered_claims
     /\ UNCHANGED saw_duplicate

\* the loop goes on after the pass: it broke only if an entry was appended
\* and the limit is reached
More == discovered_claims' = discovered_claims \/ Collected + 1 < ClaimLimit

\* the article loop of a Newsdata.io response: the next article, or the end
\* of the list (also an exception inside the loop, caught per query)
NewsdataArticle ==
  /\ scout_pc = "newsdata_articles"
  /\ \/ \E text_ok \in BOOLEAN, url \in Urls :
           /\ Article(text_ok, url, BOOLEAN)
           /\ IF More
              THEN UNCHANGED << scout_pc, query >>
              ELSE EndNewsdataQuery(Collected + 1)
     \/ /\ EndNewsdataQuery(Collected)
        /\ article' = NoArticle
        /\ UNCHANGED << discovered_claims, saw_duplicate >>
  /\ UNCHANGED << frameworkVars, investigatorVars, enhancedVars, cleanupVars, serviceVars, newsdata_api_key, guardian_api_key, existing_claim_urls,
                  request >>

\* the article loop of a Guardian response: is_reputable is True
GuardianArticle ==
  /\ scout_pc = "guardian_articles"
  /\ \/ \E text_ok \in BOOLEAN, url \in Urls :
           /\ Article(text_ok, url, {TRUE})
           /\ IF More
              THEN UNCHANGED << scout_pc, query >>
              ELSE EndGuardianQuery(Collected + 1)
     \/ /\ EndGuardianQuery(Collected)
        /\ article' = NoArticle
        /\ UNCHANGED << discovered_claims, saw_duplicate >>
  /\ UNCHANGED << frameworkVars, investigatorVars, enhancedVars, cleanupVars, serviceVars, newsdata_api_key, guardian_api_key, existing_claim_urls,
                  request >>

ScoutNext ==
  \/ ProcessTaskWithUrls
  \/ NewsdataRequest
  \/ NewsdataArticle
  \/ GuardianRequest
  \/ GuardianArticle

\* one call of the Scout, for every key configuration, set of known URLs
\* and sequence of responses
ScoutCall == ServiceOff /\ CleanupOff /\ EnhancedOff /\ InvestigatorOff /\ FrameworkOff /\ ScoutInit

ScoutSpec == ScoutCall /\ [][ScoutNext]_vars

\* ---------------------------------------------------------- auto_cleanup
\* the rows of a select as a list, in key order
RECURSIVE Ascending(_)
Ascending(ids) ==
  IF ids = {} THEN << >>
  ELSE LET first == CHOOSE i \in ids : \A j \in ids : i <= j
       IN << first >> \o Ascending(ids \ {first})

RawList(rows) ==
  LET order == Ascending({ r.claim_id : r \in rows })
  IN [i \in 1..Len(order) |-> CHOOSE r \in rows : r.claim_id = order[i]]

VerifiedList(rows) ==
  LET order == Ascending({ v.verification_id : v \in rows })
  IN [i \in 1..Len(order) |-> CHOOSE v \in rows : v.verification_id = order[i]]

Range(list) == { list[i] : i \in 1..Len(list) }

\* one delete call, as the history keeps it
DeleteCall(table, id, ok) == [table |-> table, id |-> id, ok |-> ok]

\* the first select and the search for the seed claims; the select is outside
\* every try block, so an error ends the script
CleanupSelect ==
  /\ cleanup_pc = "start"
  /\ \/ /\ cleanup_pc' = "crashed"
        /\ UNCHANGED << duplicate_ids, raw_left >>
     \/ LET all_claims == RawList(stored_raw)
            found == SelectSeq(all_claims, LAMBDA r : ContainsTestClaim(r.claim_text))
            ids == [i \in 1..Len(found) |-> found[i].claim_id]
        IN /\ duplicate_ids' = ids
           /\ raw_left' = ids
           /\ cleanup_pc' = IF Len(ids) > 0 THEN "select_verified" ELSE "done"
  /\ UNCHANGED << frameworkVars, investigatorVars, enhancedVars, serviceVars, scoutVars, stored_raw, stored_verified, verified_left, deletes >>

\* the select of verified_claims, inside the try block of the first loop
CleanupSelectVerified ==
  /\ cleanup_pc = "select_verified"
  /\ \/ /\ verified_left' = VerifiedList(stored_verified)
        /\ cleanup_pc' = "verified"
     \/ /\ cleanup_pc' = "raw"                        \* the select raises, caught
        /\ UNCHANGED verified_left
  /\ UNCHANGED << frameworkVars, investigatorVars, enhancedVars, serviceVars, scoutVars, stored_raw, stored_verified, duplicate_ids,
                  raw_left, deletes >>

\* a delete of the first loop raises: the except clause is outside the loop
AfterFailedVerifiedDelete ==
  /\ verified_left' = << >>
  /\ cleanup_pc' = "raw"

\* one pass of the loop over verified_claims
CleanupVerifiedStep ==
  /\ cleanup_pc = "verified"
  /\ IF verified_left = << >>
     THEN /\ cleanup_pc' = "raw"
          /\ UNCHANGED << verified_left, stored_verified, deletes >>
     ELSE LET verified == Head(verified_left) IN
          IF verified.raw_claim_id \in Range(duplicate_ids)
          THEN \/ /\ stored_verified' = stored_verified \ {verified}
                  /\ deletes' = Append(deletes, DeleteCall("verified_claims", verified.verification_id, TRUE))
                  /\ verified_left' = Tail(verified_left)
                  /\ UNCHANGED cleanup_pc
               \/ /\ deletes' = Append(deletes, DeleteCall("verified_claims", verified.verification_id, FALSE))
                  /\ AfterFailedVerifiedDelete
                  /\ UNCHANGED stored_verified
          ELSE /\ verified_left' = Tail(verified_left)
               /\ UNCHANGED << cleanup_pc, stored_verified, deletes >>
  /\ UNCHANGED << frameworkVars, investigatorVars, enhancedVars, serviceVars, scoutVars, stored_raw, duplicate_ids, raw_left >>

\* the ids the loop over duplicate_ids goes on with: each delete has its own
\* try block
AfterRawDelete == Tail(raw_left)

\* one pass of the loop over duplicate_ids. A delete raises on any store
\* error, a still referenced row included.
CleanupRawStep ==
  /\ cleanup_pc = "raw"
  /\ IF raw_left = << >>
     THEN /\ cleanup_pc' = "done"
          /\ UNCHANGED << raw_left, stored_raw, deletes >>
     ELSE LET claim_id == Head(raw_left) IN
          \/ /\ stored_raw' = { r \in stored_raw : r.claim_id # claim_id }
             /\ deletes' = Append(deletes, DeleteCall("raw_claims", claim_id, TRUE))
             /\ raw_left' = Tail(raw_left)
             /\ UNCHANGED cleanup_pc
          \/ /\ deletes' = Append(deletes, DeleteCall("raw_claims", claim_id, FALSE))
             /\ raw_left' = AfterRawDelete
             /\ UNCHANGED << cleanup_pc, stored_raw >>
  /\ UNCHANGED << frameworkVars, investigatorVars, enhancedVars, serviceVars, scoutVars, stored_verified, duplicate_ids, verified_left >>

CleanupNext ==
  \/ CleanupSelect
  \/ CleanupSelectVerified
  \/ CleanupVerifiedStep
  \/ CleanupRawStep

\* one run of the script over any tables
CleanupRun == ServiceOff /\ ScoutOff /\ EnhancedOff /\ InvestigatorOff /\ FrameworkOff /\ CleanupInit

CleanupSpec == CleanupRun /\ [][CleanupNext]_vars

\* ------------------------------------------------ EnhancedInvestigatorAgent
\* what json.loads makes of the model's reply: any JSON value, here the
\* empty object or a record with a verdict
GeminiResults == {"empty_object", "verdict_record"}

\* the truth value Python gives a result in 'if cached_result:'
Truthy(result) == result = "verdict_record"

\* cache_manager.check_similar_claim: the result kept for the text, or None
CheckSimilarClaim(claim_text) == cache[claim_text]

\* cache_manager.cache_claim_result
CacheClaimResult(claim_text, result) == [cache EXCEPT ![claim_text] = result]

\* one call as the history keeps it: the text, the source tag of the result
\* ("raised" when the call raised), the services queried, whether
\* analyze_with_gemini returned, the result handed to cache_claim_result
\* ("none": not called), the counters after
TaskDone(claim_text, source, db, model, gemini_ok, written, after) ==
  [claim_text |-> claim_text, source |-> source, fact_db |-> db, gemini |-> model,
   gemini_ok |-> gemini_ok, written |-> written, stats |-> after]

\* variant: the counter is left as it is
CountNot(counters, counter) == counters

\* self.stats[counter] += 1
Count(counters, counter) == [counters EXCEPT ![counter] = @ + 1]

\* variant: every fresh result is tagged gemini
SourceTagGemini(gemini_ok) == "gemini"

\* the source tag of step 4: "gemini" after the try block, "fallback" in the
\* except clause and in the else branch
SourceTag(gemini_ok) == IF gemini_ok THEN "gemini" ELSE "fallback"

\* process_task for one claim text
ProcessTask(claim_text) ==
  /\ Len(tasks_done) < MaxTasks
  /\ LET counted == Count(stats, "total_analyses")
         cached_result == CheckSimilarClaim(claim_text)
         Finish(source, db, model, gemini_ok, after, written) ==
           /\ stats' = after
           /\ cache' = IF written = "none" THEN cache
                       ELSE CacheClaimResult(claim_text, written)
           /\ tasks_done' = Append(tasks_done,
                 TaskDone(claim_text, source, db, model, gemini_ok, written, after))
     IN IF Truthy(cached_result)
        THEN Finish("cache", FALSE, FALSE, FALSE, Count(counted, "cache_hits"), "none")
        ELSE \/ Finish("raised", TRUE, FALSE, FALSE, counted, "none")      \* the lookup raises
             \/ Finish("fact_check_database", TRUE, FALSE, FALSE,
                       Count(counted, "fact_db_hits"), "verdict_record")
             \/ Finish("raised", TRUE, FALSE, FALSE, counted, "none")      \* enrich_case_file raises
             \/ /\ enh_use_gemini                                          \* the model answers
                /\ \E result \in GeminiResults :
                      Finish(SourceTag(TRUE), TRUE, TRUE, TRUE,
                             Count(counted, "gemini_calls"), result)
             \/ /\ enh_use_gemini                                          \* the model call fails
                /\ Finish(SourceTag(FALSE), TRUE, TRUE, FALSE,
                          Count(counted, "gemini_calls"), "verdict_record")
             \/ /\ enh_use_gemini                                          \* the prompt cannot be built
                /\ Finish(SourceTag(FALSE), TRUE, FALSE, FALSE, counted, "verdict_record")
             \/ /\ enh_use_gemini                                          \* the model call and the fallback fail
                /\ Finish("raised", TRUE, TRUE, FALSE,
                          Count(counted, "gemini_calls"), "none")
             \/ /\ ~enh_use_gemini
                /\ Finish(SourceTag(FALSE), TRUE, FALSE, FALSE, counted, "verdict_record")
  /\ UNCHANGED << frameworkVars, investigatorVars, serviceVars, scoutVars, cleanupVars, enh_use_gemini >>

EnhancedNext == \E claim_text \in Texts : ProcessTask(claim_text)

EnhancedStart == ServiceOff /\ ScoutOff /\ CleanupOff /\ InvestigatorOff /\ FrameworkOff /\ EnhancedInit

\* calls of process_task on one agent, any texts in any order
EnhancedSpec == EnhancedStart /\ [][EnhancedNext]_vars

TypeOK ==
  /\ pc \in {"start", "sleep", "discovery", "select", "loop", "after"}
  /\ phase \in 1..Len(Phases)
  /\ \A c \in ClaimIds : raw_claims[c].status \in Statuses
  /\ faults \in 0..MaxFaults

\* ------------------------------------------------------------- helpers
\* number of verified_claims rows that reference claim c
VerdictCount(c) ==
  CopiesIn(VerifiedRow(c, "True"), verified_claims)
  + CopiesIn(VerifiedRow(c, "False"), verified_claims)
  + CopiesIn(VerifiedRow(c, "Misleading"), verified_claims)

IsPrefix(s, t) == Len(s) <= Len(t) /\ \A i \in 1..Len(s) : s[i] = t[i]

\* the loop is between two iterations, one at least is over
IterationOver == pc = "sleep" /\ iter_no # 0

\* ------------------------------------------------------------------ C1
\* C1: every status change of a raw claim follows one of the edges
\* pending_initial_analysis -> pending_manual_review | pending_fusion_decision,
\* pending_fusion_decision -> archived | pending_final_decision,
\* pending_final_decision -> escalated_to_investigator | resolved_by_fusion | error,
\* escalated_to_investigator -> resolved_by_investigator | investigation_failed;
\* hence the statuses without an outgoing edge are never left.
StatusEdges ==
  { << "pending_initial_analysis", "pending_manual_review" >>,
    << "pending_initial_analysis", "pending_fusion_decision" >>,
    << "pending_fusion_decision", "archived" >>,
    << "pending_fusion_decision", "pending_final_decision" >>,
    << "pending_final_decision", "escalated_to_investigator" >>,
    << "pending_final_decision", "resolved_by_fusion" >>,
    << "pending_final_decision", "error" >>,
    << "escalated_to_investigator", "resolved_by_investigator" >>,
    << "escalated_to_investigator", "investigation_failed" >> }

C1_StatusEdges ==
  [][ /\ Len(raw_claims') >= Len(raw_claims)
      /\ \A c \in ClaimIds :
            raw_claims'[c].status # raw_claims[c].status
            => << raw_claims[c].status, raw_claims'[c].status >> \in StatusEdges ]_vars

\* the failure handler has moved an escalated claim
C1_Witness ==
  \E c \in ClaimIds : raw_claims[c].status = "investigation_failed" /\ raw_claims[c].retry_count = 1

\* ------------------------------------------------------------------ C2
\* C2: the verified_claims table holds at most one row per raw claim, also
\* after cycles in which a store write raised.
C2_AtMostOneVerdict == \A c \in ClaimIds : VerdictCount(c) <= 1

\* ------------------------------------------------------------------ C3
\* C3: when a phase function has returned, its loop has reached every claim
\* of its result list, whatever raised while one claim was processed.
C3_NoClaimSkipped == skipped = {}

\* ------------------------------------------------------------------ C4
\* C4: in the service as wired at startup (the Investigator holds no
\* persistence client) no claim has more than 3 failed consultations and no
\* retry_count exceeds 3.
C4_AtMostThreeFailures ==
  ~inv_has_client =>
     /\ failed_attempts <= RetryLimit
     /\ \A c \in ClaimIds : raw_claims[c].retry_count <= RetryLimit

\* ------------------------------------------------------------------ C5
\* C5: a claim whose consultation failed fewer than 3 times stays eligible:
\* the escalation query still selects it (unless a later attempt resolved it).
C5_FailedStaysEligible ==
  \A c \in ClaimIds :
     (raw_claims[c].retry_count > 0 /\ raw_claims[c].retry_count < RetryLimit)
     => raw_claims[c].status \in {"escalated_to_investigator", "resolved_by_investigator"}

\* ------------------------------------------------------------------ C6
\* C6: the coordinator loop never halts: whatever raised, a next iteration
\* begins, again and again.
C6_LoopNeverHalts == []<><<BeginIteration>>_vars

\* the status update of the final decision raised after the verdict row was
\* inserted, and the loop is back at its top
C6_Witness ==
  /\ IterationOver
  /\ \E c \in ClaimIds : VerdictCount(c) = 1 /\ raw_claims[c].status = "pending_final_decision"

\* ------------------------------------------------------------------ C7
\* C7: an iteration that ran with a push-channel manager attached has sent
\* one summary broadcast after its four phases.
C7_BroadcastEachIteration ==
  (has_manager /\ IterationOver /\ Len(phases_run) = Len(Phases)) => broadcasts = 1

\* ------------------------------------------------------------------ C8
\* C8: with a store client and an active event id, the discovery phase runs
\* in the even-numbered iterations and in no other.
C8_DiscoveryEverySecond ==
  (has_store /\ active_event_id # NoEvent /\ iter_no # 0)
  => (ran_discovery <=> iter_no = 2)

\* discovery runs in an even iteration that follows an iteration cut short
C8_Witness == pc = "discovery" /\ ran_discovery /\ iter_no = 2 /\ faults > 0

\* ------------------------------------------------------------------ C9
\* C9: one discovery phase inserts at most one raw claim, and each row it
\* inserts has status pending_initial_analysis and the active event's id.
C9_DiscoveryInsertsOne ==
  [][ (pc = "discovery" /\ pc' # "discovery")
      => /\ Len(raw_claims') <= Len(raw_claims) + 1
         /\ \A i \in (Len(raw_claims) + 1)..Len(raw_claims') :
               /\ raw_claims'[i].status = "pending_initial_analysis"
               /\ raw_claims'[i].event_id = active_event_id ]_vars

\* the discovery phase has just inserted a row: two log rows, no other writer
C9_Witness ==
  /\ pc = "select" /\ phase = 1 /\ ran_discovery /\ phases_run = << >>
  /\ Len(raw_claims) = 1 /\ system_logs = 2 /\ faults = 0
  /\ raw_claims[1].status = "pending_initial_analysis"

\* ----------------------------------------------------------------- C10
\* C10: the phase functions of a cycle are entered in the order initial,
\* fusion, final, escalation, each after the previous one returned, and a
\* phase function that returned has iterated every row of its result list.
C10_OrderedCompletePhases ==
  /\ IsPrefix(phases_run, << "initial", "fusion", "final", "escalation" >>)
  /\ (pc \in {"select", "after", "sleep"} => skipped = {})

\* ----------------------------------------------------------------- C11
\* C11: a claim in pending_fusion_decision with suspicion < 0.2 and
\* credibility > 0.8 leaves that status only for archived, no research dossier
\* is written for it and no verified_claims row references it, in that step
\* and ever after (an archived low-risk claim has no dossier and no verdict).
LowRisk(c) ==
  /\ raw_claims[c].susp # NoScore /\ raw_claims[c].susp < 20
  /\ raw_claims[c].cred > 80

C11_ArchivedWithoutResearch ==
  /\ [](\A c \in ClaimIds :
          (LowRisk(c) /\ raw_claims[c].status \in {"pending_fusion_decision", "archived"})
          => (raw_claims[c].dossier = NoDossier /\ VerdictCount(c) = 0))
  /\ [][ \A c \in ClaimIds :
           (LowRisk(c) /\ raw_claims[c].status = "pending_fusion_decision")
           => /\ raw_claims'[c].status \in {"pending_fusion_decision", "archived"}
              /\ (pc = "loop" /\ c \in todo /\ c \notin todo' /\ faults' = faults)
                 => raw_claims'[c].status = "archived" ]_vars

\* the fusion phase has archived a low-risk claim and the cycle went on
C11_Witness ==
  /\ pc = "select" /\ phase = 3
  /\ \E c \in ClaimIds : LowRisk(c) /\ raw_claims[c].status = "archived"

\* ----------------------------------------------------------------- C12
\* C12: while the final-decision phase runs, a claim already in
\* resolved_by_fusion keeps its row and its verified_claims rows, and every
\* row the phase writes to verified_claims or system_logs is written for a
\* claim of its result list that was in pending_final_decision; so a second
\* run of the phase over resolved claims changes nothing.
InFinalPhase == Phases[phase] = "final" /\ pc \in {"select", "loop"}

C12_FinalPhaseIdempotent ==
  [][ InFinalPhase =>
        /\ \A c \in ClaimIds :
              raw_claims[c].status = "resolved_by_fusion"
              => (raw_claims'[c] = raw_claims[c] /\ VerdictCount(c)' = VerdictCount(c))
        /\ (/\ Len(raw_claims') = Len(raw_claims)
            /\ (verified_claims' # verified_claims \/ system_logs' # system_logs
                \/ raw_claims' # raw_claims))
           => \E c \in todo \ todo' : raw_claims[c].status = "pending_final_decision" ]_vars

\* the phase has resolved a claim in an earlier run and is entered again
C12_Witness ==
  /\ pc = "select" /\ Phases[phase] = "final"
  /\ \E c \in ClaimIds : raw_claims[c].status = "resolved_by_fusion" /\ VerdictCount(c) = 1

\* ----------------------------------------------------------------- C13
\* C13: a claim leaves pending_initial_analysis either for
\* pending_fusion_decision with both scores written, or (the analyst returned
\* a null score) for pending_manual_review with an analysis_error text and no
\* score; the Source Profiler is not consulted for it (invalid source metadata
\* does not keep it from pending_manual_review), and once in
\* pending_manual_review its row never changes, so it never enters
\* pending_fusion_decision.
C13_NullScoreToManualReview ==
  /\ [](\A c \in ClaimIds :
          raw_claims[c].status = "pending_manual_review"
          => /\ raw_claims[c].susp = NoScore /\ raw_claims[c].cred = NoScore
             /\ raw_claims[c].analysis_error # "")
  /\ [][ \A c \in ClaimIds :
           /\ raw_claims[c].status = "pending_manual_review"
              => raw_claims'[c] = raw_claims[c]
           /\ (raw_claims[c].status = "pending_initial_analysis"
               /\ raw_claims'[c].status # "pending_initial_analysis")
              => \/ /\ raw_claims'[c].status = "pending_manual_review"
                    /\ raw_claims'[c].susp = NoScore /\ raw_claims'[c].cred = NoScore
                    /\ raw_claims'[c].analysis_error # ""
                 \/ /\ raw_claims'[c].status = "pending_fusion_decision"
                    /\ raw_claims'[c].susp # NoScore /\ raw_claims'[c].cred # NoScore ]_vars

\* a claim whose source metadata the Source Profiler rejects is in manual
\* review: the profiler was not called for it
C13_Witness ==
  /\ pc = "select" /\ Phases[phase] = "fusion"
  /\ \E c \in ClaimIds : raw_claims[c].status = "pending_manual_review" /\ ~raw_claims[c].meta_ok


C15_NoKnownUrlInResult ==
  \A url \in existing_claim_urls : ~BagIn(url, discovered_claims)

C15_Witness ==
  /\ scout_pc = "returned"
  /\ saw_duplicate
  /\ existing_claim_urls # {}
  /\ Collected > 0

\* ----------------------------------------------------------------- C16
\* C16: the result a Scout call returns has at most 15 entries, whatever keys
\* are configured and whatever the news services answer.
C16_AtMostFifteen ==
  scout_pc = "returned" => Collected <= ClaimLimit


\* ----------------------------------------------------------------- C17
\* the delete calls issued so far for one table
Issued(table) == { i \in 1..Len(deletes) : deletes[i].table = table }

\* the stored VerifiedClaims that reference a matched RawClaim
Referencing == { v \in stored_verified : v.raw_claim_id \in Range(duplicate_ids) }

\* C17: the script deletes the RawClaims whose text contains a seed string and
\* the VerifiedClaims referencing them (all of them, when no delete call
\* fails), leaves every other row in place, issues no delete when nothing
\* matches, and issues no RawClaim delete while a VerifiedClaim referencing a
\* matched RawClaim has had no delete issued for it.
C17_ExactChildThenParent ==
  /\ [](/\ (cleanup_pc = "done" /\ \A i \in 1..Len(deletes) : deletes[i].ok)
             => /\ \A r \in stored_raw : ~ContainsTestClaim(r.claim_text)
                /\ Referencing = {}
        /\ duplicate_ids = << >> => deletes = << >>
        /\ Issued("raw_claims") # {}
             => \A v \in Referencing :
                   \E i \in Issued("verified_claims") :
                      /\ deletes[i].id = v.verification_id
                      /\ \A j \in Issued("raw_claims") : i < j)
  /\ [][ /\ \A r \in stored_raw : ~ContainsTestClaim(r.claim_text) => r \in stored_raw'
         /\ \A v \in stored_verified :
               (cleanup_pc # "start" /\ v \notin Referencing) => v \in stored_verified' ]_vars

\* ----------------------------------------------------------------- C18
\* C18: once the deleting of RawClaims has started after a failed
\* VerifiedClaim delete, a delete has been attempted for every VerifiedClaim
\* that references a matched RawClaim; and when the script is done a delete
\* has been attempted for every matched RawClaim, failed deletes or not.
C18_FailedDeleteDoesNotStop ==
  /\ (/\ cleanup_pc \in {"raw", "done"}
      /\ \E i \in Issued("verified_claims") : ~deletes[i].ok)
        => \A v \in Referencing :
              \E i \in Issued("verified_claims") : deletes[i].id = v.verification_id
  /\ cleanup_pc = "done"
        => \A id \in Range(duplicate_ids) :
              \E i \in Issued("raw_claims") : deletes[i].id = id


\* ----------------------------------------------------------------- C19
\* C19: when a call of process_task follows a call that returned a result for
\* the same claim text, its result is tagged cache, it queries neither the
\* fact-check database nor the model, and of the counters only cache_hits
\* and total_analyses grow, each by one.
C19_SecondCallFromCache ==
  \A i \in 2..Len(tasks_done) :
     (/\ tasks_done[i].claim_text = tasks_done[i-1].claim_text
      /\ tasks_done[i-1].source # "raised")
       => /\ tasks_done[i].source = "cache"
          /\ ~tasks_done[i].fact_db
          /\ ~tasks_done[i].gemini
          /\ tasks_done[i].stats =
               [tasks_done[i-1].stats EXCEPT !.cache_hits = @ + 1, !.total_analyses = @ + 1]


\* ----------------------------------------------------------------- C20
\* the dossier of claim c holds a fact-check hit rated "Pants on Fire"
PantsOnFire(c) ==
  LET d == ParseDossier(raw_claims[c].dossier)
  IN d.fc_found /\ d.fc_verdict = "pants on fire"

\* C20: whatever its scores, a claim whose research dossier holds a
\* fact-check hit rated "Pants on Fire" has no verdict row other than False,
\* and a pass of the final decision that reaches it in pending_final_decision
\* without a store error leaves it resolved with a verdict row False.
C20_PantsOnFireIsFalse ==
  /\ [](\A c \in ClaimIds :
          PantsOnFire(c)
            => \A row \in BagToSet(verified_claims) :
                  row.raw_claim_id = c => row.verification_status = "False")
  /\ [][ \A c \in ClaimIds :
           (/\ PantsOnFire(c)
            /\ raw_claims[c].status = "pending_final_decision"
            /\ pc = "loop" /\ Phases[phase] = "final"
            /\ c \in todo /\ c \notin todo' /\ c \notin skipped'
            /\ faults' = faults)
             => /\ raw_claims'[c].status = "resolved_by_fusion"
                /\ BagIn(VerifiedRow(c, "False"), verified_claims') ]_vars

\* ----------------------------------------------------------------- C21
\* claim c is taken by this step of the final-decision loop and no store
\* call of the step raises
FinalPass(c) ==
  /\ raw_claims[c].status = "pending_final_decision"
  /\ pc = "loop" /\ Phases[phase] = "final"
  /\ c \in todo /\ c \notin todo' /\ c \notin skipped'
  /\ faults' = faults

\* C21: a claim in pending_final_decision with suspicion 0.9 and credibility
\* 0.9, no fact-check hit and fewer than 3 credible news sources is resolved
\* by fusion with the verdict False.
C21_HighSuspicionResolvedFalse ==
  [][ \A c \in ClaimIds :
        (/\ FinalPass(c)
         /\ raw_claims[c].susp = 90 /\ raw_claims[c].cred = 90
         /\ ~ParseDossier(raw_claims[c].dossier).fc_found
         /\ ParseDossier(raw_claims[c].dossier).credible_news < 3)
          => /\ raw_claims'[c].status = "resolved_by_fusion"
             /\ BagIn(VerifiedRow(c, "False"), verified_claims') ]_vars

\* ----------------------------------------------------------------- C22
\* the escalation condition as the specification words it, over the scores
\* and the dossier of claim c
EscalationRule(c) ==
  LET su == raw_claims[c].susp
      cr == raw_claims[c].cred
      d == ParseDossier(raw_claims[c].dossier)
  IN \/ (su > 85 /\ cr < 30)
     \/ /\ su > 70
        /\ \/ (d.has_summary /\ (d.has_contradict \/ d.has_false \/ d.has_not))
           \/ d.credible_news = 0

\* C22: a claim with both scores that a final-decision step takes without a
\* store error goes to escalated_to_investigator with no verdict row added
\* exactly when the escalation rule holds of its scores, its summary and its
\* count of credible news sources; the fact-check entry plays no part.
C22_EscalatedIffRule ==
  [][ \A c \in ClaimIds :
        (/\ FinalPass(c)
         /\ raw_claims[c].susp # NoScore /\ raw_claims[c].cred # NoScore)
          => ((/\ raw_claims'[c].status = "escalated_to_investigator"
               /\ verified_claims' = verified_claims)
              <=> EscalationRule(c)) ]_vars

\* ----------------------------------------------------------------- C23
\* the verdict of the first matching rule of the ordered list, as the
\* specification words it, over the scores and the dossier of claim c
RuleVerdict(c) ==
  LET su == raw_claims[c].susp
      cr == raw_claims[c].cred
      d == ParseDossier(raw_claims[c].dossier)
  IN CASE d.fc_found /\ (FcHasFalse(d.fc_verdict) \/ FcHasPants(d.fc_verdict)) -> "False"
       [] d.fc_found /\ ~(FcHasFalse(d.fc_verdict) \/ FcHasPants(d.fc_verdict))
                     /\ FcHasTrue(d.fc_verdict) -> "True"
       [] d.fc_found /\ ~(FcHasFalse(d.fc_verdict) \/ FcHasPants(d.fc_verdict))
                     /\ ~FcHasTrue(d.fc_verdict) -> "Misleading"
       [] ~d.fc_found /\ d.credible_news >= 3 -> "True"
       [] ~d.fc_found /\ d.credible_news < 3 ->
            IF su > 80 THEN "False"
            ELSE IF su > 60 /\ cr < 60 THEN "False"
            ELSE IF su > 70 THEN "False"
            ELSE IF su < 20 /\ cr > 60 THEN "True"
            ELSE IF su < 40 /\ cr > 50 THEN "True"
            ELSE IF su < 30 THEN "True"
            ELSE IF d.has_false \/ d.has_not THEN "False"
            ELSE "Misleading"

\* C23: a claim with both scores that a final-decision step takes without a
\* store error and does not escalate is resolved by fusion with exactly one
\* new verdict row, whose verdict is that of the first matching rule.
C23_VerdictOfFirstRule ==
  [][ \A c \in ClaimIds :
        (/\ FinalPass(c)
         /\ raw_claims[c].susp # NoScore /\ raw_claims[c].cred # NoScore
         /\ raw_claims'[c].status # "escalated_to_investigator")
          => /\ raw_claims'[c].status = "resolved_by_fusion"
             /\ verified_claims' = verified_claims (+) SetToBag({VerifiedRow(c, RuleVerdict(c))}) ]_vars

\* ----------------------------------------------------------------- C24
\* claim c has a NULL score column
MissingScore(c) == raw_claims[c].susp = NoScore \/ raw_claims[c].cred = NoScore

\* claim c is taken by this step of the loop of the named phase and no store
\* call of the step raises
PhasePass(name, c) ==
  /\ pc = "loop" /\ Phases[phase] = name
  /\ c \in todo /\ c \notin todo' /\ c \notin skipped'
  /\ faults' = faults

\* C24: a claim with a missing score gets no verdict row; the fusion-decision
\* loop passes over it and leaves its row as it is, and the final-decision loop
\* sets its status to error with an analysis_error text and changes nothing
\* else of it.
C24_MissingScoreHandled ==
  [][ \A c \in ClaimIds :
        MissingScore(c)
          => /\ PhasePass("fusion", c)
                  => /\ raw_claims' = raw_claims
                     /\ verified_claims' = verified_claims
             /\ PhasePass("final", c)
                  => /\ raw_claims'[c].status = "error"
                     /\ raw_claims'[c].analysis_error # ""
                     /\ raw_claims' = UpdateClaim(c, [status |-> "error",
                            analysis_error |-> raw_claims'[c].analysis_error])
                     /\ verified_claims' = verified_claims ]_vars

\* both cases have happened in one cycle: one claim without a score is still
\* in pending_fusion_decision after the fusion loop, another one is in error
C24_Witness ==
  /\ phase = 4
  /\ phases_run = << "initial", "fusion", "final" >>
  /\ faults = 0
  /\ \E c \in ClaimIds :
        /\ raw_claims[c].status = "pending_fusion_decision"
        /\ MissingScore(c)
  /\ \E c \in ClaimIds :
        /\ raw_claims[c].status = "error"
        /\ raw_claims[c].analysis_error = "missing_scores"
        /\ MissingScore(c)
  /\ verified_claims = EmptyBag

\* ----------------------------------------------------------------- C25
\* this step is a consultation of claim c in which process_task raised after
\* a failed model call, and no store call of the step raised
FailedConsultation(c) ==
  /\ PhasePass("escalation", c)
  /\ use_gemini /\ inv_has_client
  /\ watched' = c
  /\ failed_attempts' = (IF watched = c THEN failed_attempts + 1 ELSE 1)

\* C25: when the model-backed analysis fails for a claim and the Investigator
\* holds a persistence client, the consultation adds exactly 1 to the claim's
\* retry_count, sets its status to investigation_failed, appends one system
\* log row and inserts no verdict row; a claim left in investigation_failed
\* has no verdict row as long as no store call has failed.
C25_FailedAnalysisCountsRetry ==
  /\ [](\A c \in ClaimIds :
          (raw_claims[c].status = "investigation_failed" /\ faults = 0)
            => VerdictCount(c) = 0)
  /\ [][ \A c \in ClaimIds :
           FailedConsultation(c)
             => /\ raw_claims' = UpdateClaim(c,
                      [retry_count |-> raw_claims[c].retry_count + 1,
                       status |-> "investigation_failed"])
                /\ system_logs' = system_logs + 1
                /\ verified_claims' = verified_claims ]_vars

C25_Witness ==
  /\ watched # 0
  /\ failed_attempts = 1
  /\ faults = 0
  /\ raw_claims[watched].status = "investigation_failed"
  /\ raw_claims[watched].retry_count = 1
  /\ VerdictCount(watched) = 0

\* ----------------------------------------------------------------- C26
\* the verdict and the confidence of the rule, a missing score read as 0.5
DefaultedScore(score) == IF score \in {Absent, NoScore} THEN 50 ELSE score

FallbackRule(cf) ==
  LET su == DefaultedScore(cf.susp)
      cr == DefaultedScore(cf.cred)
  IN IF su > 80 /\ cr < 30 THEN << "False", 90 >>
     ELSE IF su < 30 /\ cr > 70 THEN << "True", 80 >>
     ELSE << "Misleading", 60 >>

\* C26: without a generative model, process_task returns for every case file
\* the verdict and the confidence of the fallback rule, a missing score
\* counting as 0.5, and changes no store row.
C26_MockVerdictForEveryCaseFile ==
  /\ []((returned.op = "process_task" /\ ~use_gemini)
          => /\ returned.outcome = "returned"
             /\ << returned.verdict, returned.score >> = FallbackRule(case_file))
  /\ [][ returned'.op = "process_task" => UNCHANGED storeVars ]_vars

\* ----------------------------------------------------------------- C27
\* C27: assess_source_credibility never raises and returns a number in
\* [0, 1]: 0.5 when the model is unavailable, when the call fails, when the
\* reply is not JSON and when the score is missing, not a number or outside
\* [0, 1]; in every other case the score of the reply.
C27_AssessedScoreNeutralOrModel ==
  returned.op = "assess_source_credibility"
    => /\ returned.outcome = "returned"
       /\ 0 <= returned.score /\ returned.score <= 100
       /\ returned.score =
            (IF use_gemini /\ reply.kind = "score" /\ 0 <= reply.score /\ reply.score <= 100
             THEN reply.score ELSE 50)

\* ----------------------------------------------------------------- C28
\* C28: when an initial-analysis step moves a claim to pending_fusion_decision,
\* the credibility re-assessment was invoked exactly if the Source Profiler's
\* score was 0.5, and the credibility written is the re-assessment's result in
\* that case and the profiler's score in every other case.
C28_ReassessedIffNeutral ==
  [][ \A c \in ClaimIds :
        (/\ recording
         /\ PhasePass("initial", c)
         /\ raw_claims'[c].status = "pending_fusion_decision")
          => /\ (profiled'.assessed # NoScore) <=> (profiled'.profiler = 50)
             /\ raw_claims'[c].cred = (IF profiled'.profiler = 50
                                       THEN profiled'.assessed
                                       ELSE profiled'.profiler) ]_vars

\* a claim whose profiler score 0.5 was replaced by the re-assessment's 0.9
C28_Witness ==
  /\ profiled = [profiler |-> 50, assessed |-> 90]
  /\ \E c \in ClaimIds :
        /\ raw_claims[c].status = "pending_fusion_decision"
        /\ raw_claims[c].cred = 90

\* ----------------------------------------------------------------- C29
\* a step of an article loop that handled an article which passed the length
\* and the duplicate check
CheckedArticle ==
  /\ scout_pc \in {"newsdata_articles", "guardian_articles"}
  /\ article'.checked

\* the article of the step was kept
Kept == BagCardinality(discovered_claims') = Collected + 1

\* C29: an article that passed the length and the duplicate check is kept
\* exactly if it is suspicious, or from an unreliable domain, or fewer than 10
\* entries are collected and its source is not reputable, or fewer than 5
\* entries are collected; a Guardian article is always reputable, so with 5 or
\* more entries collected it is kept only if suspicious or from an unreliable
\* domain.
C29_KeptIffRule ==
  [][ CheckedArticle =>
        /\ Kept <=> \/ article'.is_suspicious
                    \/ article'.is_unreliable_domain
                    \/ (Collected < 10 /\ ~article'.is_reputable)
                    \/ Collected < 5
        /\ ~Kept => discovered_claims' = discovered_claims
        /\ scout_pc = "guardian_articles"
             => /\ article'.is_reputable
                /\ (Collected >= 5 /\ Kept)
                     => (article'.is_suspicious \/ article'.is_unreliable_domain) ]_vars

\* a Guardian article that is neither suspicious nor from an unreliable domain
\* was passed over with between 5 and 9 entries collected
C29_Witness ==
  /\ scout_pc = "guardian_articles"
  /\ article = Checked(FALSE, TRUE, FALSE)
  /\ Collected >= 5
  /\ Collected < 10

\* ----------------------------------------------------------------- C30
\* a request step whose request timed out, failed or was answered with
\* another status than 200
FailedRequest(loop) == scout_pc = loop /\ request' = "failed"

\* the query loop goes on with its next query
NextQuery(loop) == scout_pc' = loop /\ query' = query + 1

\* C30: a Scout call ends by returning. A request that fails changes nothing
\* of what is collected and is followed by the next query of the same loop
\* (after the last Newsdata.io query by the Guardian loop if it has a key, and
\* with the limit of 15 reached or the last query made by the return). With
\* no key no request is sent and the result is empty.
C30_FailuresAbsorbed ==
  /\ [](/\ scout_pc \in {"idle", "newsdata", "newsdata_articles",
                         "guardian", "guardian_articles", "returned"}
        /\ (~newsdata_api_key /\ ~guardian_api_key)
             => (request = "none" /\ discovered_claims = EmptyBag))
  /\ [][ /\ FailedRequest("newsdata")
           => /\ discovered_claims' = discovered_claims
              /\ IF query < 6
                 THEN NextQuery("newsdata")
                 ELSE IF guardian_api_key
                 THEN scout_pc' = "guardian" /\ query' = 1
                 ELSE scout_pc' = "returned"
         /\ FailedRequest("guardian")
           => /\ discovered_claims' = discovered_claims
              /\ IF query < 8 /\ Collected < 15
                 THEN NextQuery("guardian")
                 ELSE scout_pc' = "returned" ]_vars

\* a request failed with entries collected and the next query is about to be
\* sent
C30_Witness ==
  /\ request = "failed"
  /\ scout_pc \in {"newsdata", "guardian"}
  /\ query > 1
  /\ Collected > 0

\* ----------------------------------------------------------------- C31
\* the tasks submitted and not yet taken from the queue
Waiting == { t \in 1..Len(submitted) : \A i \in 1..Len(serviced) : serviced[i] # t }

\* no waiting task goes before t: none has a higher priority, and none of the
\* same priority was submitted earlier
GoesFirst(t) ==
  \A u \in Waiting :
     /\ submitted[u] <= submitted[t]
     /\ submitted[u] = submitted[t] => t <= u

\* C31: no submit_task call raises, and each task the run loop takes from the
\* queue is, among the tasks waiting, one of the highest TaskPriority and of
\* these the one submitted first.
C31_PriorityThenArrival ==
  /\ [](queue_outcome # "put_raised")
  /\ [][ serviced' # serviced =>
           /\ Len(serviced') = Len(serviced) + 1
           /\ serviced'[Len(serviced')] \in Waiting
           /\ GoesFirst(serviced'[Len(serviced')]) ]_vars

\* ----------------------------------------------------------------- C32
\* a step that is one call of process_task
TaskStep == Len(tasks_done') = Len(tasks_done) + 1

\* the call of the step, as the history keeps it
ThisTask == tasks_done'[Len(tasks_done')]

\* C32: a call that returns a result tagged gemini or fallback has handed that
\* result to the cache, which holds it for the claim text when the call
\* returns, and the tag is gemini exactly if the model call returned; a call
\* tagged fact_check_database has cached its verdict record too; a call
\* answered from the cache writes nothing to it.
C32_FreshResultCachedAndTagged ==
  [][ TaskStep =>
        /\ ThisTask.source \in {"gemini", "fallback"}
             => /\ ThisTask.written # "none"
                /\ cache'[ThisTask.claim_text] = ThisTask.written
                /\ (ThisTask.source = "gemini") <=> ThisTask.gemini_ok
        /\ ThisTask.source = "fact_check_database"
             => /\ ThisTask.written = "verdict_record"
                /\ cache'[ThisTask.claim_text] = ThisTask.written
        /\ ThisTask.source = "cache"
             => /\ ThisTask.written = "none"
                /\ cache' = cache ]_vars

\* a call whose model call failed returned the fallback result, now cached,
\* and a later call was answered from the cache
C32_Witness ==
  \E i, j \in 1..Len(tasks_done) :
     /\ i < j
     /\ tasks_done[i].source = "fallback"
     /\ tasks_done[i].gemini
     /\ ~tasks_done[i].gemini_ok
     /\ tasks_done[j].source = "cache"
     /\ tasks_done[j].claim_text = tasks_done[i].claim_text
     /\ cache[tasks_done[i].claim_text] = "verdict_record"

\* ----------------------------------------------------------------- C38
\* the three counters of the pipeline steps
StepCounters == {"cache_hits", "fact_db_hits", "gemini_calls"}

\* C38: cache_hits + fact_db_hits + gemini_calls never exceeds
\* total_analyses; a call of process_task, returning or raising, adds exactly
\* 1 to total_analyses and 1 to at most one of the three other counters, and
\* leaves the rest as they were.
C38_CountersBoundedByTotal ==
  /\ [](stats.cache_hits + stats.fact_db_hits + stats.gemini_calls <= stats.total_analyses)
  /\ [][ TaskStep =>
           /\ stats'.total_analyses = stats.total_analyses + 1
           /\ \A k \in StepCounters : stats'[k] \in {stats[k], stats[k] + 1}
           /\ Cardinality({ k \in StepCounters : stats'[k] # stats[k] }) <= 1 ]_vars

\* calls that hit the cache, asked the model and raised, with a call that
\* counted for no step
C38_Witness ==
  /\ stats.cache_hits > 0
  /\ stats.gemini_calls > 0
  /\ \E i \in 1..Len(tasks_done) : tasks_done[i].source = "raised"
  /\ stats.cache_hits + stats.fact_db_hits + stats.gemini_calls < stats.total_analyses

\* ----------------------------------------------------------------- C34
\* the store holds an event with status active
HasActiveEvent == \E e \in 1..Len(events) : events[e] = "active"

\* the step in which start() calls get_or_create_active_event
LoopStart == pc = "start" /\ pc' # "start"

\* C34: the events table changes only in the call at loop start, only when it
\* holds no active event, and only by one new active row; with an active
\* event the call inserts nothing and returns the id of an active event (None
\* without a store client or when the store call raises); the call is never
\* made again.
C34_OneEventOnlyIfNoneActive ==
  [][ /\ events' # events
        => /\ LoopStart
           /\ ~HasActiveEvent
           /\ events' = Append(events, "active")
           /\ active_event_id' = Len(events')
      /\ (LoopStart /\ HasActiveEvent)
        => /\ events' = events
           /\ \/ active_event_id' \in DOMAIN events /\ events[active_event_id'] = "active"
              \/ active_event_id' = NoEvent /\ (~has_store \/ faults' = faults + 1)
      /\ pc # "start" => pc' # "start" ]_vars

\* an active event was created beside an event that is not active
C34_Witness ==
  /\ events = << "closed", "active" >>
  /\ active_event_id = 2
  /\ pc # "start"

\* ----------------------------------------------------------------- C33
\* C33: a connection whose handler has ended is not tracked by the manager,
\* each tracked connection has a handler in its keepalive loop, the step in
\* which a handler ends removes its connection and no other, and removing a
\* connection that is not tracked leaves the set as it is.
C33_EndedHandlerNotTracked ==
  /\ [](\A c \in Connections :
          /\ ws_pc[c] \in {"ended", "refused", "none"} => c \notin active_connections
          /\ ws_pc[c] \in {"send", "sleep"} => c \in active_connections
          /\ c \notin active_connections => Disconnect(c) = active_connections)
  /\ [][ \A c \in Connections :
           (ws_pc[c] # "ended" /\ ws_pc'[c] = "ended")
             => active_connections' = active_connections \ {c} ]_vars

\* one handler has ended after a failed ping while another connection is
\* still tracked
C33_Witness ==
  \E c, d \in Connections :
     /\ ws_pc[c] = "ended"
     /\ ws_pc[d] = "sleep"
     /\ active_connections = {d}

\* ----------------------------------------------------------------- C35
\* a row with a claim text and valid source metadata waits for its initial
\* analysis
ValidPending(c) ==
  /\ c \in ClaimIds
  /\ raw_claims[c].status = "pending_initial_analysis"
  /\ raw_claims[c].text_ok
  /\ raw_claims[c].meta_ok

\* C35: every valid claim in pending_initial_analysis is eventually moved out
\* of that status, also when a claim with an invalid input waits beside it
\* and in whatever order the store returns the two.
C35_ValidClaimEventuallyAnalysed ==
  \A c \in 1..MaxClaims :
     ValidPending(c) ~> (c \in ClaimIds /\ raw_claims[c].status # "pending_initial_analysis")

\* ----------------------------------------------------------------- C36
\* the verified_claims rows that reference claim c
VerdictsOf(c) == { row \in BagToSet(verified_claims) : row.raw_claim_id = c }

Resolved == { "resolved_by_fusion", "resolved_by_investigator" }

\* C36: every claim in resolved_by_fusion or resolved_by_investigator has at
\* least one verified_claims row that references it, and the step that
\* writes either status finds or leaves such a row: the insert comes before
\* the update, so a write that fails in between leaves the row without the
\* status, never the status without the row.
C36_ResolvedHasVerdict ==
  /\ [](\A c \in ClaimIds : raw_claims[c].status \in Resolved => VerdictsOf(c) # {})
  /\ [][ \A c \in ClaimIds :
           (raw_claims[c].status \notin Resolved /\ raw_claims'[c].status \in Resolved)
             => VerdictsOf(c)' # {} ]_vars

\* a claim resolved by the Investigator after a status update that failed:
\* the row of the failed attempt and the row of the repeated one
C36_Witness ==
  \E c \in ClaimIds :
     /\ raw_claims[c].status = "resolved_by_investigator"
     /\ CopiesIn(VerifiedRow(c, MockVerdict(raw_claims[c].susp, raw_claims[c].cred)), verified_claims) = 2

\* ----------------------------------------------------------------- C37
\* the statuses a claim takes after its initial analysis
PastInitialAnalysis ==
  { "pending_fusion_decision", "pending_final_decision", "escalated_to_investigator",
    "archived", "resolved_by_fusion", "resolved_by_investigator" }

BothScores(row) == row.susp # NoScore /\ row.cred # NoScore

\* C37: a claim past its initial analysis holds both scores; the update that
\* takes it out of pending_initial_analysis into the pipeline writes both,
\* and no later step changes either.
C37_ScoresWrittenOnceWithTransition ==
  /\ [](\A c \in ClaimIds : raw_claims[c].status \in PastInitialAnalysis => BothScores(raw_claims[c]))
  /\ [][ \A c \in ClaimIds :
           /\ (raw_claims[c].status = "pending_initial_analysis"
                 /\ raw_claims'[c].status \in PastInitialAnalysis)
                => BothScores(raw_claims'[c])
           /\ raw_claims[c].status # "pending_initial_analysis"
                => (raw_claims'[c].susp = raw_claims[c].susp /\ raw_claims'[c].cred = raw_claims[c].cred) ]_vars

\* a claim carried from its analysis to the Investigator's verdict with the
\* scores of its analysis
C37_Witness ==
  \E c \in ClaimIds :
     /\ raw_claims[c].status = "resolved_by_investigator"
     /\ raw_claims[c].susp = 90
     /\ raw_claims[c].cred = 50
     /\ raw_claims[c].dossier # NoDossier

\* ----------------------------------------------------------------- C39
Submitting == { "submit_claim", "seed_demo_claim" }

\* C39: a request to POST /api/submit-claim or POST /seed-demo-claim returns
\* the success object exactly when it inserted one raw_claims row in
\* pending_initial_analysis, and an error object only when it inserted none,
\* whichever store call raised.
C39_ResponseMatchesStore ==
  [][ response'.handler \in Submitting
        => /\ response'.kind = "success"
                <=> /\ Len(raw_claims') = Len(raw_claims) + 1
                    /\ raw_claims'[Len(raw_claims')].status = "pending_initial_analysis"
                    /\ SubSeq(raw_claims', 1, Len(raw_claims)) = raw_claims
           /\ response'.kind = "error" => raw_claims' = raw_claims ]_vars

\* ----------------------------------------------------------------- C40
Pending == { c \in ClaimIds : raw_claims[c].status = "pending_initial_analysis" }

\* no store or agent call has failed and none can raise on a stored row's input
NothingFails ==
  /\ faults' = 0
  /\ \A c \in ClaimIds : raw_claims[c].text_ok /\ raw_claims[c].meta_ok

InitialLoop == pc = "loop" /\ Phases[phase] = "initial"

\* C40: with an HTTP handler inserting rows between any two steps of the
\* coordinator, an inserted row is never lost and is analysed exactly once,
\* in the cycle whose initial-analysis select follows the insert. Step by
\* step: a row stays in the table, and in pending_initial_analysis until an
\* iteration of the initial-analysis loop takes it; when nothing fails, the
\* select of the phase takes every waiting row, the loop ends only when it
\* has taken them all, one per iteration, and each iteration moves its row
\* out of pending_initial_analysis; no step moves a row back.
C40_SubmittedClaimAnalysedOnce ==
  [][ /\ \A c \in ClaimIds :
           /\ c \in ClaimIds'
           /\ (c \in Pending /\ c \notin Pending') => (InitialLoop /\ c \in todo /\ c \notin todo')
           /\ c \notin Pending => c \notin Pending'
      /\ (pc = "select" /\ Phases[phase] = "initial" /\ pc' # "select" /\ NothingFails)
           => todo' = Pending
      /\ (pc = "select" /\ Phases[phase] = "initial" /\ phase' # phase /\ NothingFails)
           => Pending = {}
      /\ (InitialLoop /\ todo' # todo /\ NothingFails)
           => \E c \in todo :
                 /\ todo' = todo \ {c}
                 /\ c \in Pending
                 /\ c \notin Pending' ]_vars

\* the second row was inserted after the select that took the first one:
\* the first has its verdict from an earlier cycle, the second has just been
\* analysed, and nothing has failed
C40_Witness ==
  /\ Len(raw_claims) = 2
  /\ faults = 0
  /\ \A c \in ClaimIds : raw_claims[c].text_ok /\ raw_claims[c].meta_ok
  /\ raw_claims[1].status = "resolved_by_fusion"
  /\ raw_claims[2].status = "pending_fusion_decision"
  /\ pc = "select" /\ Phases[phase] = "fusion"

====
